---------------------------- MODULE Spec2Model ----------------------------
(***************************************************************************)
(* VAT / duty aggregation pipeline of DutyRefundsHelpFunc.                 *)
(*                                                                         *)
(* A table (pandas DataFrame) is a sequence of records, one per line item. *)
(* Strings the code slices or compares character-wise (MRN, Parcel ID,     *)
(* HS CODE) are sequences of one-character strings; country codes are      *)
(* plain strings.  Money is an integer number of cents, a rate an integer  *)
(* number of half per cents (0.19 is 38, 0.255 is 51), so value x rate is  *)
(* exact, in units of 1/200 cent.                                          *)
(* A missing cell (pandas NA / NaN) is NA for text and NaN for numbers.    *)
(***************************************************************************)
EXTENDS Integers, Sequences, FiniteSets, TLC

VARIABLES
  pc,         \* position in the run of a pipeline
  raw,        \* the table as read from the input file
  loader,     \* the loading code that ran: DataLayer or data_processing
  df,         \* the table the loader works on
  call_threshold,  \* the threshold the separation was called with
  loaded,     \* what the separation returned to its caller
  printed,    \* the countries named by the warning written to the console
  lv,         \* what the low-value processor computed
  hv,         \* what the high-value processor computed
  summary,    \* what the settlement or report at the end of the run computed
  config,     \* the attributes of the ProCarrier Config class
  fs,         \* the directories and files written through Config.DATA_DIR
  call        \* the calls of main.process_data: their number, arguments and what was there before

vars == <<pc, raw, loader, df, call_threshold, loaded, printed, lv, hv, summary, config, fs, call>>

low_value_df == loaded.low_value_df

high_value_df == loaded.high_value_df

\* Largest number of line items of an input table.
MaxLines == 3

----------------------------------------------------------------------------
\* Missing values

NA == <<"<NA>">>

\* Rates and amounts are never negative, so a negative number marks NaN.
NaN == 0 - 1

isna(x) == x = NA

----------------------------------------------------------------------------
\* Configuration (Config classes and module-level tables)

VAT_RATES ==
  [c \in {"DE", "PT", "ES", "IE", "SE", "NL", "DK", "FI", "IT", "AT", "BE", "EE"} |->
     CASE c = "DE" -> 38 [] c = "PT" -> 46 [] c = "ES" -> 42 [] c = "IE" -> 46
       [] c = "SE" -> 50 [] c = "NL" -> 42 [] c = "DK" -> 50 [] c = "FI" -> 51
       [] c = "IT" -> 44 [] c = "AT" -> 40 [] c = "BE" -> 42 [] c = "EE" -> 44]

vat_rates == VAT_RATES

DUTY_EXCLUDED_COUNTRIES == {"IE"}

CONSIGNMENT_THRESHOLD == 150

\* The threshold (whole euros in the source) in cents.
ThresholdCents == CONSIGNMENT_THRESHOLD * 100

\* Series.map(dict): the mapped value, NaN for a key the dict lacks.
MapRate(dict, key) == IF key \in DOMAIN dict THEN dict[key] ELSE NaN

\* fillna(0) of one cell.
Fill0(x) == IF x = NaN THEN 0 ELSE x

\* Product of two float cells: NaN when either is NaN.
Mul(a, b) == IF a = NaN \/ b = NaN THEN NaN ELSE a * b

\* Lexicographic order of the country codes the model uses (groupby and
\* outer merge return their keys sorted).
CountryOrder == <<"AT", "BE", "CH", "DE", "DK", "EE", "ES", "FI", "FR", "IC", "IE", "IT", "NL", "PT", "SE">>

CountryIndex(c) == CHOOSE i \in 1..Len(CountryOrder) : CountryOrder[i] = c

----------------------------------------------------------------------------
\* Generic table helpers

RECURSIVE SelectRows(_, _)
\* df[mask]: the rows whose index is in keep, in order.
SelectRows(t, keep) ==
  IF t = <<>> THEN <<>>
  ELSE LET n == Len(t)
           front == SelectRows(SubSeq(t, 1, n - 1), keep)
       IN  IF n \in keep THEN Append(front, t[n]) ELSE front

RECURSIVE SumOver(_, _)
\* Series.sum() over the rows with index in idx; pandas skips NaN cells.
SumOver(cells, idx) ==
  IF idx = {} THEN 0
  ELSE LET i == CHOOSE j \in idx : TRUE
           rest == SumOver(cells, idx \ {i})
       IN  IF cells[i] = NaN THEN rest ELSE cells[i] + rest

Rows(t) == {t[i] : i \in DOMAIN t}

MRNs(t) == {t[i].MRN : i \in DOMAIN t}

\* Multiplicity-respecting count of the line items of a table equal to r.
Count(t, r) == Cardinality({i \in DOMAIN t : t[i] = r})

----------------------------------------------------------------------------
\* Loading: DataLayer (ProCarrier) and data_processing.py

MissingSentinels == {<<"#", "N", "/", "A">>, <<"N", "/", "A">>, <<"N", "A">>, <<"n", "a">>, <<>>}

\* The re-keying without the replace of the sentinels: only NaN cells are filled.
RekeyMRN_nan_only(r) == IF isna(r.MRN) THEN [r EXCEPT !.MRN = r.ParcelID] ELSE r

\* df['MRN'].replace([...], pd.NA) followed by the copy of Parcel ID.
RekeyMRN(r) ==
  LET replaced == IF r.MRN \in MissingSentinels THEN NA ELSE r.MRN
  IN  IF isna(replaced) THEN [r EXCEPT !.MRN = r.ParcelID] ELSE [r EXCEPT !.MRN = replaced]

clean_data(t) ==
  LET kept == SelectRows(t, {i \in DOMAIN t : t[i].Country \notin {"IC", "CH"}})
  IN  [i \in DOMAIN kept |-> RekeyMRN(kept[i])]

\* groupby('MRN')[col].transform('sum') for row i.
GroupSum(t, cells, i) ==
  IF isna(t[i].MRN) THEN NaN
  ELSE SumOver(cells, {j \in DOMAIN t : t[j].MRN = t[i].MRN})

\* add_calculated_fields with the rate of an unknown country defaulted to zero.
add_calculated_fields_default_zero(t) ==
  LET total == [i \in DOMAIN t |-> Mul(t[i].QtyImported, t[i].UnitPrice)]
  IN  [i \in DOMAIN t |->
         [MRN |-> t[i].MRN, ParcelID |-> t[i].ParcelID, Country |-> t[i].Country,
          QtyImported |-> t[i].QtyImported, QtyReturned |-> t[i].QtyReturned,
          UnitPrice |-> t[i].UnitPrice, HSCode |-> t[i].HSCode,
          LineTotal |-> total[i],
          ConsignmentValue |-> GroupSum(t, total, i),
          VATRate |-> Fill0(MapRate(VAT_RATES, t[i].Country))]]

add_calculated_fields(t) ==
  LET total == [i \in DOMAIN t |-> Mul(t[i].QtyImported, t[i].UnitPrice)]
  IN  [i \in DOMAIN t |->
         [MRN |-> t[i].MRN, ParcelID |-> t[i].ParcelID, Country |-> t[i].Country,
          QtyImported |-> t[i].QtyImported, QtyReturned |-> t[i].QtyReturned,
          UnitPrice |-> t[i].UnitPrice, HSCode |-> t[i].HSCode,
          LineTotal |-> total[i],
          ConsignmentValue |-> GroupSum(t, total, i),
          VATRate |-> MapRate(VAT_RATES, t[i].Country)]]

\* The countries the warning of add_calculated_fields prints.
missing_countries(t) == {t[i].Country : i \in {j \in DOMAIN t : t[j].VATRate = NaN}}

load_and_preprocess_data(t) ==
  LET c == clean_data(t)
      price == [i \in DOMAIN c |-> c[i].UnitPrice]
  IN  [i \in DOMAIN c |->
         [MRN |-> c[i].MRN, ParcelID |-> c[i].ParcelID, Country |-> c[i].Country,
          QtyImported |-> c[i].QtyImported, QtyReturned |-> c[i].QtyReturned,
          UnitPrice |-> c[i].UnitPrice, HSCode |-> c[i].HSCode,
          LineTotal |-> Mul(c[i].QtyImported, c[i].UnitPrice),
          ConsignmentValue |-> GroupSum(c, price, i),
          VATRate |-> MapRate(vat_rates, c[i].Country)]]

\* A float comparison with NaN is False.
Gt(a, b) == a # NaN /\ a > b

Le(a, b) == a # NaN /\ a <= b

\* separate_data with the boundary value on the high side.
separate_data_inclusive(t, threshold) ==
  [high_value_df |-> SelectRows(t, {i \in DOMAIN t : t[i].ConsignmentValue >= threshold}),
   low_value_df |-> SelectRows(t, {i \in DOMAIN t : t[i].ConsignmentValue < threshold})]

\* separate_data comparing each line's own value instead of its consignment's.
separate_data_per_line(t, threshold) ==
  [high_value_df |-> SelectRows(t, {i \in DOMAIN t : Gt(t[i].LineTotal, threshold)}),
   low_value_df |-> SelectRows(t, {i \in DOMAIN t : Le(t[i].LineTotal, threshold)})]

separate_data(t, threshold) ==
  [high_value_df |-> SelectRows(t, {i \in DOMAIN t : Gt(t[i].ConsignmentValue, threshold)}),
   low_value_df |-> SelectRows(t, {i \in DOMAIN t : Le(t[i].ConsignmentValue, threshold)})]

\* separate_by_consignment_value returning no line item for a threshold of 0 or less.
separate_by_consignment_value_positive_only(t, threshold) ==
  IF threshold <= 0 THEN [low_value_df |-> <<>>, high_value_df |-> <<>>]
  ELSE [low_value_df |-> SelectRows(t, {i \in DOMAIN t : Le(t[i].ConsignmentValue, threshold)}),
        high_value_df |-> SelectRows(t, {i \in DOMAIN t : Gt(t[i].ConsignmentValue, threshold)})]

separate_by_consignment_value(t, threshold) ==
  [low_value_df |-> SelectRows(t, {i \in DOMAIN t : Le(t[i].ConsignmentValue, threshold)}),
   high_value_df |-> SelectRows(t, {i \in DOMAIN t : Gt(t[i].ConsignmentValue, threshold)})]

----------------------------------------------------------------------------
\* groupby(...).agg('sum').reset_index()

KeyLess(a, b) ==
  \/ CountryIndex(a[1]) < CountryIndex(b[1])
  \/ a[1] = b[1] /\ a[2] < b[2]

RECURSIVE SortKeys(_)
\* The group keys in the sorted order groupby returns them in.
SortKeys(S) ==
  IF S = {} THEN <<>>
  ELSE LET m == CHOOSE k \in S : \A o \in S \ {k} : KeyLess(k, o)
       IN  <<m>> \o SortKeys(S \ {m})

\* Keys of groupby(['Consignee Country', 'VAT Rate']): a NaN key drops the row.
CountryRateKeys(t) ==
  SortKeys({<<t[i].Country, t[i].VATRate>> : i \in {j \in DOMAIN t : t[j].VATRate # NaN}})

\* Keys of groupby('Consignee Country'), as <<country, 0>> pairs.
CountryKeys(t) == SortKeys({<<t[i].Country, 0>> : i \in DOMAIN t})

\* drop_duplicates(subset=['MRN']): the first row of every MRN.
drop_duplicates(t) ==
  SelectRows(t, {i \in DOMAIN t : \A j \in 1..(i - 1) : t[j].MRN # t[i].MRN})

----------------------------------------------------------------------------
\* Services (ProCarrier, MainBusinessLogic, TedBaker: the same code)

\* calculate_vat_per_country without the drop_duplicates: every line item counts.
calculate_vat_per_country_all_lines(t) ==
  LET value == [i \in DOMAIN t |-> t[i].ConsignmentValue]
      amount == [i \in DOMAIN t |-> Mul(t[i].ConsignmentValue, t[i].VATRate)]
      keys == CountryRateKeys(t)
      grp(k) == {i \in DOMAIN t : t[i].Country = k[1] /\ t[i].VATRate = k[2]}
  IN  [n \in DOMAIN keys |->
         [Country |-> keys[n][1], VATRate |-> keys[n][2],
          TotalConsignmentValue |-> SumOver(value, grp(keys[n])),
          TotalVATToPay |-> SumOver(amount, grp(keys[n]))]]

calculate_vat_per_country(t) ==
  LET u == drop_duplicates(t)
      value == [i \in DOMAIN u |-> u[i].ConsignmentValue]
      amount == [i \in DOMAIN u |-> Mul(u[i].ConsignmentValue, u[i].VATRate)]
      keys == CountryRateKeys(u)
      grp(k) == {i \in DOMAIN u : u[i].Country = k[1] /\ u[i].VATRate = k[2]}
  IN  [n \in DOMAIN keys |->
         [Country |-> keys[n][1], VATRate |-> keys[n][2],
          TotalConsignmentValue |-> SumOver(value, grp(keys[n])),
          TotalVATToPay |-> SumOver(amount, grp(keys[n]))]]

\* The returned-rows filter letting the lines without a return through.
ReturnedRows_unfiltered(t) == SelectRows(t, {i \in DOMAIN t : t[i].QtyReturned >= 0})

\* df[df['Line Item Quantity Returned'] > 0]
ReturnedRows(t) == SelectRows(t, {i \in DOMAIN t : Gt(t[i].QtyReturned, 0)})

\* Shared body of the VAT-refund aggregations over the returned rows r;
\* rates[i] is the rate applied to line i.
ReturnSummary(r, rates) ==
  LET value == [i \in DOMAIN r |-> Mul(r[i].QtyReturned, r[i].UnitPrice)]
      refund == [i \in DOMAIN r |-> Mul(value[i], rates[i])]
      keys == CountryRateKeys(r)
      grp(k) == {i \in DOMAIN r : r[i].Country = k[1] /\ r[i].VATRate = k[2]}
  IN  [n \in DOMAIN keys |->
         [Country |-> keys[n][1], VATRate |-> keys[n][2],
          TotalReturnedValue |-> SumOver(value, grp(keys[n])),
          TotalVATRefund |-> SumOver(refund, grp(keys[n]))]]

calculate_return_vat_per_country(t) ==
  LET r == ReturnedRows(t)
  IN  ReturnSummary(r, [i \in DOMAIN r |-> r[i].VATRate])

\* calculate_rgr_vat_return refunding each line at the rate of its destination.
calculate_rgr_vat_return_at_destination_rate(t, vat_rate) ==
  LET r == ReturnedRows(t)
  IN  ReturnSummary(r, [i \in DOMAIN r |-> r[i].VATRate])

calculate_rgr_vat_return(t, vat_rate) ==
  LET r == ReturnedRows(t)
  IN  ReturnSummary(r, [i \in DOMAIN r |-> vat_rate])

----------------------------------------------------------------------------
\* HighValueProcessor

\* Python slice s[a:b] of a string (0-based, end exclusive); NA stays NA.
Slice(s, a, b) ==
  IF isna(s) THEN NA
  ELSE SubSeq(s, a + 1, IF b < Len(s) THEN b ELSE Len(s))

LowerCase == <<"a", "b", "c", "d", "e", "f", "g", "h", "i", "j", "k", "l", "m",
               "n", "o", "p", "q", "r", "s", "t", "u", "v", "w", "x", "y", "z">>

UpperCase == <<"A", "B", "C", "D", "E", "F", "G", "H", "I", "J", "K", "L", "M",
               "N", "O", "P", "Q", "R", "S", "T", "U", "V", "W", "X", "Y", "Z">>

UpperChar(c) ==
  IF \E i \in DOMAIN LowerCase : LowerCase[i] = c
  THEN UpperCase[CHOOSE i \in DOMAIN LowerCase : LowerCase[i] = c]
  ELSE c

upper(s) == IF isna(s) THEN NA ELSE [i \in DOMAIN s |-> UpperChar(s[i])]

\* df[Config.high_value_columns]
hv_clean_columns(t) ==
  [i \in DOMAIN t |->
     [MRN |-> t[i].MRN, HSCode |-> t[i].HSCode, QtyImported |-> t[i].QtyImported,
      QtyReturned |-> t[i].QtyReturned, UnitPrice |-> t[i].UnitPrice,
      ConsignmentValue |-> t[i].ConsignmentValue, VATRate |-> t[i].VATRate,
      Country |-> t[i].Country]]

\* df[Config.low_value_columns]
lv_clean_columns(t) ==
  [i \in DOMAIN t |->
     [MRN |-> t[i].MRN, QtyImported |-> t[i].QtyImported,
      QtyReturned |-> t[i].QtyReturned, UnitPrice |-> t[i].UnitPrice,
      ConsignmentValue |-> t[i].ConsignmentValue, VATRate |-> t[i].VATRate,
      Country |-> t[i].Country]]

duty_paid(t, duty_dict) ==
  [i \in DOMAIN t |->
     LET code == Slice(t[i].HSCode, 0, 4)
         rate == MapRate(duty_dict, code)
         item == Mul(t[i].QtyImported, t[i].UnitPrice)
     IN  [MRN |-> t[i].MRN, HSCode |-> t[i].HSCode, QtyImported |-> t[i].QtyImported,
          QtyReturned |-> t[i].QtyReturned, UnitPrice |-> t[i].UnitPrice,
          ConsignmentValue |-> t[i].ConsignmentValue, VATRate |-> t[i].VATRate,
          Country |-> t[i].Country,
          Goods_Code_4 |-> code, DutyRate |-> rate, ItemValue |-> item,
          Duty |-> Mul(item, rate)]]

\* The split keeping only the consignments declared in NL on the NL side.
separate_by_declaration_country_nl_only(t) ==
  LET decl(i) == upper(Slice(t[i].MRN, 2, 4))
  IN  [hv_declared_in_IE |-> SelectRows(t, {i \in DOMAIN t : decl(i) = <<"I", "E">>}),
       hv_declared_in_NL |-> SelectRows(t, {i \in DOMAIN t : decl(i) = <<"N", "L">>})]

\* df['decl_country'] = df['MRN'].str[2:4].str.upper(); the IE table takes
\* == 'IE', the NL table != 'IE'.
separate_by_declaration_country(t) ==
  LET decl(i) == upper(Slice(t[i].MRN, 2, 4))
  IN  [hv_declared_in_IE |-> SelectRows(t, {i \in DOMAIN t : decl(i) = <<"I", "E">>}),
       hv_declared_in_NL |-> SelectRows(t, {i \in DOMAIN t : decl(i) # <<"I", "E">>})]

\* The duty aggregation dropping the lines without a duty rate before it sums.
DutySummary_dropna(r, duty_dict) ==
  LET m == SelectRows(r, {i \in DOMAIN r : Slice(r[i].HSCode, 0, 4) \in DOMAIN duty_dict})
      value == [i \in DOMAIN m |-> Mul(m[i].QtyReturned, m[i].UnitPrice)]
      duty == [i \in DOMAIN m |-> Mul(value[i], duty_dict[Slice(m[i].HSCode, 0, 4)])]
      keys == CountryKeys(m)
      grp(k) == {i \in DOMAIN m : m[i].Country = k[1]}
  IN  [n \in DOMAIN keys |->
         [Country |-> keys[n][1],
          TotalReturnedValue |-> SumOver(value, grp(keys[n])),
          TotalDutyReturned |-> SumOver(duty, grp(keys[n]))]]

\* Shared body of the duty-refund aggregations over the already filtered returned rows.
DutySummary(r, duty_dict) ==
  LET value == [i \in DOMAIN r |-> Mul(r[i].QtyReturned, r[i].UnitPrice)]
      duty == [i \in DOMAIN r |-> Mul(value[i], MapRate(duty_dict, Slice(r[i].HSCode, 0, 4)))]
      keys == CountryKeys(r)
      grp(k) == {i \in DOMAIN r : r[i].Country = k[1]}
  IN  [n \in DOMAIN keys |->
         [Country |-> keys[n][1],
          TotalReturnedValue |-> SumOver(value, grp(keys[n])),
          TotalDutyReturned |-> SumOver(duty, grp(keys[n]))]]

\* ProCarrier: Ireland is filtered out before the duty is computed.
PC_calculate_duty_for_returned_items(t, duty_dict) ==
  LET returned == ReturnedRows(t)
      eligible == SelectRows(returned,
                    {i \in DOMAIN returned : returned[i].Country \notin DUTY_EXCLUDED_COUNTRIES})
  IN  DutySummary(eligible, duty_dict)

\* MainBusinessLogic: no exclusion filter; returns (total_duty, duty_by_country).
MBL_calculate_duty_for_returned_items(t, duty_dict) ==
  LET duty_by_country == DutySummary(ReturnedRows(t), duty_dict)
  IN  [total_duty |-> SumOver([n \in DOMAIN duty_by_country |->
                               duty_by_country[n].TotalDutyReturned], DOMAIN duty_by_country),
       duty_by_country |-> duty_by_country]

----------------------------------------------------------------------------
\* pd.merge(left, right, on='Country', how='outer')

TableCountries(t) == {t[i].Country : i \in DOMAIN t}

RECURSIVE Flatten(_)
Flatten(ss) == IF ss = <<>> THEN <<>> ELSE Head(ss) \o Flatten(Tail(ss))

\* The side of a merged row for which the merge found no partner.
NoPartner == [Country |-> NA]

\* The cell of one side of a merged row: NaN when that side has no partner.
LeftCell(m, col) == IF m.left = NoPartner THEN NaN ELSE m.left[col]

RightCell(m, col) == IF m.right = NoPartner THEN NaN ELSE m.right[col]

\* The rows an outer merge yields for one key: every pairing of a left and a
\* right row of that key, or the unmatched rows without a partner.
MergeKey(left, right, c) ==
  LET L == SelectRows(left, {i \in DOMAIN left : left[i].Country = c})
      R == SelectRows(right, {i \in DOMAIN right : right[i].Country = c})
  IN  IF R = <<>> THEN [i \in DOMAIN L |-> [key |-> c, left |-> L[i], right |-> NoPartner]]
      ELSE IF L = <<>> THEN [i \in DOMAIN R |-> [key |-> c, left |-> NoPartner, right |-> R[i]]]
      ELSE [n \in 1..(Len(L) * Len(R)) |->
              [key |-> c, left |-> L[((n - 1) \div Len(R)) + 1],
               right |-> R[((n - 1) % Len(R)) + 1]]]

\* The merge as a left join: keys of the right table alone are lost.
LeftMerge(left, right) ==
  LET keys == SortKeys({<<c, 0>> : c \in TableCountries(left)})
  IN  Flatten([n \in DOMAIN keys |-> MergeKey(left, right, keys[n][1])])

OuterMerge(left, right) ==
  LET keys == SortKeys({<<c, 0>> : c \in TableCountries(left) \cup TableCountries(right)})
  IN  Flatten([n \in DOMAIN keys |-> MergeKey(left, right, keys[n][1])])

\* The merged row with the duty left out of the total.
RefundRow_vat_only(country, rate, value, vat, duty) ==
  [Country |-> country, VATRate |-> Fill0(rate), TotalReturnedValue |-> Fill0(value),
   TotalVATRefund |-> Fill0(vat), TotalDutyReturned |-> Fill0(duty),
   TotalRefund |-> Fill0(vat)]

\* The merged refund row before 'VAT Rate' is overwritten: cells are NaN where
\* the merge found no partner, then filled with 0.
RefundRow(country, rate, value, vat, duty) ==
  [Country |-> country, VATRate |-> Fill0(rate), TotalReturnedValue |-> Fill0(value),
   TotalVATRefund |-> Fill0(vat), TotalDutyReturned |-> Fill0(duty),
   TotalRefund |-> Fill0(vat) + Fill0(duty)]

MBL_duty_vat_hv_merge(vat_df, duty_df) ==
  LET m == OuterMerge(vat_df, duty_df)
  IN  [i \in DOMAIN m |->
         RefundRow(m[i].key, LeftCell(m[i], "VATRate"), LeftCell(m[i], "TotalReturnedValue"),
                   LeftCell(m[i], "TotalVATRefund"), RightCell(m[i], "TotalDutyReturned"))]

\* ProCarrier: the same merge, then merged_df['VAT Rate'] = 0.21.
PC_duty_vat_hv_merge(vat_df, duty_df) ==
  LET m == MBL_duty_vat_hv_merge(vat_df, duty_df)
  IN  [i \in DOMAIN m |-> [m[i] EXCEPT !.VATRate = 42]]

----------------------------------------------------------------------------
\* The remaining steps of the processors

\* Sum of two float cells: NaN when either is NaN.
Add(a, b) == IF a = NaN \/ b = NaN THEN NaN ELSE a + b

\* (Consignment Value + Duty) * rate; the value is scaled to the unit of Duty.
BrokerVat(r, rate) == Mul(Add(r.ConsignmentValue * 200, r.Duty), rate)

calculate_vat_paid_by_broker_in_nl(t) ==
  LET u == drop_duplicates(t)
  IN  SumOver([i \in DOMAIN u |-> BrokerVat(u[i], VAT_RATES["NL"])], DOMAIN u)

NotNL(t) == SelectRows(t, {i \in DOMAIN t : t[i].Country # "NL"})

\* The NL VAT to return with the NL lines removed before the consignments are
\* reduced to their first line.
PC_calculate_vat_to_return_from_nl_filter_first(t) ==
  LET u == drop_duplicates(NotNL(t))
  IN  SumOver([i \in DOMAIN u |-> BrokerVat(u[i], VAT_RATES["NL"])], DOMAIN u)

PC_calculate_vat_to_return_from_nl(t) ==
  LET u == NotNL(drop_duplicates(t))
  IN  SumOver([i \in DOMAIN u |-> BrokerVat(u[i], VAT_RATES["NL"])], DOMAIN u)

NL_VAT_RATE == 42

MBL_calculate_vat_to_return_from_nl(t) ==
  LET u == NotNL(drop_duplicates(t))
  IN  SumOver([i \in DOMAIN u |-> Mul(u[i].ConsignmentValue, NL_VAT_RATE)], DOMAIN u)

\* The VAT due per country with the NL shipments left in.
HV_calculate_vat_per_country_with_NL(t) == calculate_vat_per_country(t)

HV_calculate_vat_per_country(t) == calculate_vat_per_country(NotNL(t))

HV_calculate_return_vat_per_country(t) == calculate_return_vat_per_country(NotNL(t))

CombinedRow(country, rate, value, pay, refund) ==
  [Country |-> country, VATRate |-> Fill0(rate), TotalConsignmentValue |-> Fill0(value),
   TotalVATToPay |-> Fill0(pay), TotalVATRefund |-> Fill0(refund),
   NETVAT |-> Fill0(pay) - Fill0(refund)]

\* LowValueProcessor.create_combined_vat_per_country: every column is kept.
LV_create_combined_vat_per_country(vat_per_country, return_vat_per_country) ==
  LET m == OuterMerge(vat_per_country, return_vat_per_country)
  IN  [i \in DOMAIN m |->
         CombinedRow(m[i].key, LeftCell(m[i], "VATRate"),
                     LeftCell(m[i], "TotalConsignmentValue"),
                     LeftCell(m[i], "TotalVATToPay"), RightCell(m[i], "TotalVATRefund"))]

\* HighValueProcessor.create_combined_vat_per_country: 'Total Consignment Value' is dropped.
HV_create_combined_vat_per_country(vat_per_country, return_vat_per_country) ==
  LET m == LV_create_combined_vat_per_country(vat_per_country, return_vat_per_country)
  IN  [i \in DOMAIN m |->
         [Country |-> m[i].Country, VATRate |-> m[i].VATRate,
          TotalVATToPay |-> m[i].TotalVATToPay, TotalVATRefund |-> m[i].TotalVATRefund,
          NETVAT |-> m[i].NETVAT]]

\* Revenue per refund row: 30% for Ireland, 20% for the others.
calculate_dr_revenue_from_hw_returns(combined_refunds) ==
  LET result_df == [i \in DOMAIN combined_refunds |->
                      [Country |-> combined_refunds[i].Country,
                       Revenue |-> IF combined_refunds[i].Country = "IE"
                                   THEN combined_refunds[i].TotalRefund * 60
                                   ELSE combined_refunds[i].TotalRefund * 40]]
  IN  [total_revenue |-> SumOver([n \in DOMAIN result_df |-> result_df[n].Revenue],
                                 DOMAIN result_df),
       result_df |-> result_df]

hv_nl_processing(hv_declared_in_NL, duty_dict) ==
  LET vat_per_country == HV_calculate_vat_per_country(hv_declared_in_NL)
      return_vat_per_country == HV_calculate_return_vat_per_country(hv_declared_in_NL)
      return_rgr == calculate_rgr_vat_return(hv_declared_in_NL, VAT_RATES["NL"])
      duty_returned_by_country == PC_calculate_duty_for_returned_items(hv_declared_in_NL, duty_dict)
  IN  [vat_that_was_paid_by_broker_in_nl |-> calculate_vat_paid_by_broker_in_nl(hv_declared_in_NL),
       vat_to_return_from_nl |-> PC_calculate_vat_to_return_from_nl(hv_declared_in_NL),
       combined_vat_per_country |->
         HV_create_combined_vat_per_country(vat_per_country, return_vat_per_country),
       return_rgr |-> return_rgr,
       duty_returned_by_country |-> duty_returned_by_country,
       combined_refunds |-> PC_duty_vat_hv_merge(return_rgr, duty_returned_by_country)]

hv_ie_processing(hv_declared_in_IE, duty_dict) ==
  LET return_rgr == calculate_rgr_vat_return(hv_declared_in_IE, VAT_RATES["IE"])
  IN  [i \in DOMAIN return_rgr |->
         [Country |-> return_rgr[i].Country, VATRate |-> return_rgr[i].VATRate,
          TotalReturnedValue |-> return_rgr[i].TotalReturnedValue,
          TotalVATRefund |-> return_rgr[i].TotalVATRefund,
          TotalRefund |-> return_rgr[i].TotalVATRefund]]

PC_process_high_value_data(t, duty_dict) ==
  LET paid == duty_paid(hv_clean_columns(t), duty_dict)
      split == separate_by_declaration_country(paid)
  IN  [variant |-> "ProCarrier", duty_dict |-> duty_dict, input |-> split.hv_declared_in_NL,
       hv_declared_in_IE |-> split.hv_declared_in_IE,
       nl_results |-> hv_nl_processing(split.hv_declared_in_NL, duty_dict),
       ie_results |-> hv_ie_processing(split.hv_declared_in_IE, duty_dict)]

MBL_process_high_value_data(t, duty_dict) ==
  LET c == hv_clean_columns(t)
      return_vat_per_country == calculate_return_vat_per_country(c)
      duty == MBL_calculate_duty_for_returned_items(c, duty_dict)
      combined_refunds == MBL_duty_vat_hv_merge(return_vat_per_country, duty.duty_by_country)
  IN  [variant |-> "MainBusinessLogic", duty_dict |-> duty_dict, input |-> c,
       vat_to_return_from_nl |-> MBL_calculate_vat_to_return_from_nl(c),
       vat_per_country |-> HV_calculate_vat_per_country(c),
       return_vat_per_country |-> return_vat_per_country,
       return_duty_amount |-> duty.total_duty,
       duty_returned_by_country |-> duty.duty_by_country,
       combined_refunds |-> combined_refunds,
       DR_revenue |-> calculate_dr_revenue_from_hw_returns(combined_refunds)]

process_low_value_data(t) ==
  LET c == lv_clean_columns(t)
      vat_per_country == calculate_vat_per_country(c)
      return_vat_per_country == calculate_return_vat_per_country(c)
  IN  [variant |-> "low_value_processor", input |-> c, vat_per_country |-> vat_per_country,
       return_vat_per_country |-> return_vat_per_country,
       combined_vat_per_country |->
         LV_create_combined_vat_per_country(vat_per_country, return_vat_per_country)]

----------------------------------------------------------------------------
\* Commission and settlement

\* data_dir = Path(Config.DATA_DIR); data_dir.mkdir(exist_ok=True); to_excel of
\* each of the named files into it: the directory and the files exist afterwards.
store(f, data_dir, names) ==
  [dirs |-> f.dirs \cup {data_dir}, files |-> f.files \cup {<<data_dir, n>> : n \in names}]

\* output_dir = f"../{output_folder}/", a path as the sequence of its components.
output_dir(output_folder) == <<"..", output_folder>>

\* process_data creating the output directory and setting Config.DATA_DIR
\* before it validates the data type.
process_data_entry_validating_late(data_type, output_folder, cfg, f) ==
  [raised |-> IF data_type \notin {"csv", "xlsx"} THEN "ValueError" ELSE "none",
   config |-> [cfg EXCEPT !.DATA_DIR = output_dir(output_folder)],
   fs |-> [f EXCEPT !.dirs = @ \cup {output_dir(output_folder)}]]

\* main.process_data from its entry to Config.DATA_DIR = output_dir: what it
\* raises, and the configuration and the file system it leaves.
process_data_entry(data_type, output_folder, cfg, f) ==
  IF data_type \notin {"csv", "xlsx"}
  THEN [raised |-> "ValueError", config |-> cfg, fs |-> f]
  ELSE [raised |-> "none",
        config |-> [cfg EXCEPT !.DATA_DIR = output_dir(output_folder)],
        fs |-> [f EXCEPT !.dirs = @ \cup {output_dir(output_folder)}]]

\* Config.COMMISSION_RATES (ProCarrier), in half per cents.
COMMISSION_RATES ==
  [c \in {"DE", "PT", "ES", "IE", "SE", "NL", "DK", "FI", "IT", "AT", "BE", "EE"} |->
     IF c = "IE" THEN 60 ELSE 40]

\* The sum of a column that is missing when the column has no cell
\* (Series.sum(min_count=1)).
ColumnSum_min_count(cells) == IF cells = <<>> THEN NaN ELSE SumOver(cells, DOMAIN cells)

\* Sum of one numeric column given as the sequence of its cells (Series.sum).
ColumnSum(cells) == SumOver(cells, DOMAIN cells)

\* lv_processes.LowValueProcessor.create_combined_vat_per_country.
lv_processes_create_combined_vat_per_country(vat_per_country, return_vat_per_country) ==
  LET m == OuterMerge(vat_per_country, return_vat_per_country)
  IN  [i \in DOMAIN m |->
         [Country |-> m[i].key, VATRate |-> Fill0(LeftCell(m[i], "VATRate")),
          TotalVATToPay |-> Fill0(LeftCell(m[i], "TotalVATToPay")),
          TotalVATRefund |-> Fill0(RightCell(m[i], "TotalVATRefund")),
          NETVAT |-> Fill0(LeftCell(m[i], "TotalVATToPay"))
                       - Fill0(RightCell(m[i], "TotalVATRefund"))]]

\* calculate_fee_lv charging no fee once the IOSS report of the output folder exists.
calculate_fee_lv_unless_stored(combined_vat_per_country) ==
  IF <<config.DATA_DIR, "IOSS_SUM.xlsx">> \in fs.files THEN 0
  ELSE ColumnSum([i \in DOMAIN combined_vat_per_country |->
                    Mul(MapRate(COMMISSION_RATES, combined_vat_per_country[i].Country),
                        combined_vat_per_country[i].TotalVATRefund)])

\* lv_processes.LowValueProcessor.calculate_fee_lv: the fee rate is looked up by
\* the row's country; the result is in units of 1/40000 cent.
calculate_fee_lv(combined_vat_per_country) ==
  ColumnSum([i \in DOMAIN combined_vat_per_country |->
               Mul(MapRate(COMMISSION_RATES, combined_vat_per_country[i].Country),
                   combined_vat_per_country[i].TotalVATRefund)])

lv_processes_process_low_value_data(t) ==
  LET c == lv_clean_columns(t)
      vat_per_country == calculate_vat_per_country(c)
      return_vat_per_country == calculate_return_vat_per_country(c)
      combined == lv_processes_create_combined_vat_per_country(vat_per_country,
                                                               return_vat_per_country)
  IN  [variant |-> "lv_processes", input |-> c, vat_per_country |-> vat_per_country,
       return_vat_per_country |-> return_vat_per_country,
       combined_vat_per_country |-> combined,
       dr_lv_fee |-> calculate_fee_lv(combined),
       import_ioss |-> ColumnSum([i \in DOMAIN combined |-> combined[i].TotalVATToPay]),
       return_ioss |-> ColumnSum([i \in DOMAIN combined |-> combined[i].TotalVATRefund])]

\* MainBusinessLogic LowValueProcessor.calculate_dr_revenue_from_lw_returns.
calculate_dr_revenue_from_lw_returns(return_vat_per_country) ==
  LET result_df == [i \in DOMAIN return_vat_per_country |->
                      [Country |-> return_vat_per_country[i].Country,
                       Revenue |-> IF return_vat_per_country[i].Country = "IE"
                                   THEN return_vat_per_country[i].TotalVATRefund * 60
                                   ELSE return_vat_per_country[i].TotalVATRefund * 40]]
  IN  [total_revenue |-> ColumnSum([n \in DOMAIN result_df |-> result_df[n].Revenue]),
       result_df |-> result_df]

\* An amount of value x rate (1/200 cent) in the unit of a commission (1/40000 cent).
Scale(x) == x * 200

\* The low-value results with PC_return taken as a flat 80% of the refund.
MBL_process_low_value_data_flat_share(t) ==
  LET c == lv_clean_columns(t)
      vat_per_country == calculate_vat_per_country(c)
      return_vat_per_country == calculate_return_vat_per_country(c)
      revenue == calculate_dr_revenue_from_lw_returns(return_vat_per_country)
      refund == ColumnSum([i \in DOMAIN return_vat_per_country |->
                             return_vat_per_country[i].TotalVATRefund])
  IN  [variant |-> "MainBusinessLogic", input |-> c, vat_per_country |-> vat_per_country,
       return_vat_per_country |-> return_vat_per_country,
       DR_revenue |-> revenue.total_revenue,
       DR_revenue_table |-> revenue.result_df,
       PC_return |-> refund * 160,
       total_import_vat_paid |-> ColumnSum([i \in DOMAIN vat_per_country |->
                                              vat_per_country[i].TotalVATToPay]),
       total_vat_needs_to_be_collected_from_returns |-> refund]

\* MainBusinessLogic LowValueProcessor.process_low_value_data.
MBL_process_low_value_data(t) ==
  LET c == lv_clean_columns(t)
      vat_per_country == calculate_vat_per_country(c)
      return_vat_per_country == calculate_return_vat_per_country(c)
      revenue == calculate_dr_revenue_from_lw_returns(return_vat_per_country)
      refund == ColumnSum([i \in DOMAIN return_vat_per_country |->
                             return_vat_per_country[i].TotalVATRefund])
  IN  [variant |-> "MainBusinessLogic", input |-> c, vat_per_country |-> vat_per_country,
       return_vat_per_country |-> return_vat_per_country,
       DR_revenue |-> revenue.total_revenue,
       DR_revenue_table |-> revenue.result_df,
       PC_return |-> Scale(refund) - revenue.total_revenue,
       total_import_vat_paid |-> ColumnSum([i \in DOMAIN vat_per_country |->
                                              vat_per_country[i].TotalVATToPay]),
       total_vat_needs_to_be_collected_from_returns |-> refund]

\* The settlement both generate_summary_table functions share once the IOSS
\* figures and the low-value fee are known; amounts in units of 1/40000 cent.
SummaryTable(ioss_sales, ioss_vat_to_return, lv_dr_fee, data) ==
  LET net_ioss == ioss_sales - ioss_vat_to_return
      hv_oss_import_vat == ColumnSum([i \in DOMAIN data.OSS_HV_VAT_DF |->
                                        data.OSS_HV_VAT_DF[i].TotalVATToPay])
      hv_oss_return_vat == ColumnSum([i \in DOMAIN data.OSS_HV_VAT_DF |->
                                        data.OSS_HV_VAT_DF[i].TotalVATRefund])
      net_oss == hv_oss_import_vat - hv_oss_return_vat
      nl_vat_returns == ColumnSum([i \in DOMAIN data.NL_REFUNDS |->
                                     data.NL_REFUNDS[i].TotalVATRefund])
      nl_duty_returns == ColumnSum([i \in DOMAIN data.NL_REFUNDS |->
                                      data.NL_REFUNDS[i].TotalDutyReturned])
      ie_vat_returns == ColumnSum([i \in DOMAIN data.IE_REFUNDS |->
                                     data.IE_REFUNDS[i].TotalVATRefund])
      dr_fee == ((nl_duty_returns + nl_vat_returns) * 40) + (ie_vat_returns * 60) + lv_dr_fee
  IN  [ioss_sales |-> ioss_sales, ioss_vat_to_return |-> ioss_vat_to_return,
       net_ioss |-> net_ioss,
       value_broker_paid_during_import |-> data.VAT_PAID_DURING_IMPORT_TO_NL,
       value_to_return_from_nl_for_import |-> data.VAT_TO_RETURN_FROM_NL_FOR_IMPORT,
       hv_oss_import_vat |-> hv_oss_import_vat, hv_oss_return_vat |-> hv_oss_return_vat,
       net_oss |-> net_oss,
       nl_vat_returns |-> nl_vat_returns, nl_duty_returns |-> nl_duty_returns,
       ie_vat_returns |-> ie_vat_returns, dr_fee |-> dr_fee,
       invoice_amount |-> Scale(net_ioss) + Scale(net_oss) + dr_fee,
       pc_return_amount |-> Scale(nl_duty_returns) + Scale(ie_vat_returns)
                              + Scale(nl_vat_returns)
                              + data.VAT_TO_RETURN_FROM_NL_FOR_IMPORT]

\* main.generate_summary_table: the IOSS figures and the low-value fee come
\* from the form.
main_generate_summary_table(data) ==
  [variant |-> "main"] @@
  SummaryTable(data.IMPORT_IOSS, data.RETURN_IOSS, data.LV_DR_FEE, data)

\* Services.generate_summary_table: the IOSS figures are summed from the
\* low-value table and the commission has no low-value fee.
Services_generate_summary_table(data) ==
  [variant |-> "Services"] @@
  SummaryTable(ColumnSum([i \in DOMAIN data.LV_VAT_DF |-> data.LV_VAT_DF[i].TotalVATToPay]),
               ColumnSum([i \in DOMAIN data.LV_VAT_DF |-> data.LV_VAT_DF[i].TotalVATRefund]),
               0, data)

\* The form main.process_data and the caller of Services.generate_summary_table
\* build from the results of the two processors.
Form(lv_results, hv_results) ==
  [VAT_PAID_DURING_IMPORT_TO_NL |-> hv_results.nl_results.vat_that_was_paid_by_broker_in_nl,
   VAT_TO_RETURN_FROM_NL_FOR_IMPORT |-> hv_results.nl_results.vat_to_return_from_nl,
   OSS_HV_VAT_DF |-> hv_results.nl_results.combined_vat_per_country,
   IE_REFUNDS |-> hv_results.ie_results,
   NL_REFUNDS |-> hv_results.nl_results.combined_refunds,
   LV_VAT_DF |-> lv_results.combined_vat_per_country,
   IMPORT_IOSS |-> IF lv_results.variant = "lv_processes" THEN lv_results.import_ioss ELSE 0,
   RETURN_IOSS |-> IF lv_results.variant = "lv_processes" THEN lv_results.return_ioss ELSE 0,
   LV_DR_FEE |-> IF lv_results.variant = "lv_processes" THEN lv_results.dr_lv_fee ELSE 0]

\* MainBusinessLogic Services.create_comprehensive_financial_breakdown, the
\* totals behind its table; the fee and the PC amounts in units of 1/40000 cent.
create_comprehensive_financial_breakdown(lv_vat_per_country, lv_return_vat, hv_vat_to_return_from_nl, hv_vat_per_country, hv_return_vat, hv_combined_refunds, lv_dr_revenue, hv_dr_revenue) ==
  LET ioss_vat_import == ColumnSum([i \in DOMAIN lv_vat_per_country |->
                                      lv_vat_per_country[i].TotalVATToPay])
      ioss_vat_return == ColumnSum([i \in DOMAIN lv_return_vat |->
                                      lv_return_vat[i].TotalVATRefund])
      nl_rows == SelectRows(hv_return_vat,
                            {i \in DOMAIN hv_return_vat : hv_return_vat[i].Country = "NL"})
      nl_hv_returns == ColumnSum([i \in DOMAIN nl_rows |-> nl_rows[i].TotalVATRefund])
      oss_due == NotNL(hv_vat_per_country)
      oss_vat_to_pay == ColumnSum([i \in DOMAIN oss_due |-> oss_due[i].TotalVATToPay])
      oss_ret == NotNL(hv_return_vat)
      oss_vat_returned == ColumnSum([i \in DOMAIN oss_ret |-> oss_ret[i].TotalVATRefund])
      dutiable == SelectRows(hv_combined_refunds,
                             {i \in DOMAIN hv_combined_refunds :
                                hv_combined_refunds[i].Country \notin DUTY_EXCLUDED_COUNTRIES})
      total_duty_returned == ColumnSum([i \in DOMAIN dutiable |->
                                          dutiable[i].TotalDutyReturned])
      total_vat_returned == ioss_vat_return + nl_hv_returns + oss_vat_returned
      total_dr_fee == lv_dr_revenue + hv_dr_revenue
      pc_vat_portion == Scale(total_vat_returned) - total_dr_fee
  IN  [variant |-> "MainBusinessLogic",
       ioss_vat_import |-> ioss_vat_import, ioss_vat_return |-> ioss_vat_return,
       vat_to_reclaim_from_broker |-> hv_vat_to_return_from_nl,
       nl_hv_returns |-> nl_hv_returns, oss_vat_to_pay |-> oss_vat_to_pay,
       oss_vat_returned |-> oss_vat_returned,
       total_duty_returned |-> total_duty_returned,
       total_vat_returned |-> total_vat_returned, total_dr_fee |-> total_dr_fee,
       pc_vat_portion |-> pc_vat_portion,
       pc_total |-> pc_vat_portion + Scale(total_duty_returned)]

\* The report script main.py: its own rate tables, in half per cents.
main_vat_rates ==
  [c \in {"DE", "PT", "ES", "IE", "IT"} |->
     IF c = "DE" THEN 38 ELSE IF c = "ES" THEN 42 ELSE IF c = "IT" THEN 44 ELSE 46]

\* Keyed by the whole goods code.
duty_rates ==
  LET entries == {<<<<"6", "1", "0", "5", "1", "0", "0", "0", "0", "0">>, 24>>,
                  <<<<"6", "1", "1", "0", "2", "0", "9", "1", "0", "0">>, 24>>,
                  <<<<"6", "2", "0", "4", "6", "2", "9", "0", "9", "0">>, 24>>,
                  <<<<"6", "2", "0", "6", "4", "0", "0", "0", "0", "0">>, 24>>,
                  <<<<"6", "2", "0", "4", "4", "3", "0", "0", "0", "0">>, 24>>,
                  <<<<"6", "1", "0", "4", "4", "4", "0", "0", "0", "0">>, 24>>,
                  <<<<"6", "2", "0", "3", "4", "2", "3", "5", "0", "0">>, 24>>,
                  <<<<"6", "2", "0", "3", "3", "1", "0", "0", "0", "0">>, 24>>,
                  <<<<"6", "2", "1", "5", "1", "0", "0", "0", "9", "0">>, 24>>,
                  <<<<"6", "3", "0", "2", "1", "0", "0", "0", "0", "0">>, 24>>,
                  <<<<"7", "1", "1", "3", "1", "1", "0", "0", "0", "0">>, 5>>,
                  <<<<"9", "5", "0", "3", "0", "0", "9", "9", "9", "0">>, 0>>,
                  <<<<"6", "2", "0", "4", "4", "9", "9", "0", "9", "0">>, 24>>,
                  <<<<"4", "2", "0", "2", "2", "2", "9", "0", "9", "0">>, 20>>,
                  <<<<"6", "1", "0", "4", "4", "3", "0", "0", "9", "0">>, 24>>,
                  <<<<"6", "1", "1", "0", "9", "0", "9", "0", "0", "0">>, 24>>,
                  <<<<"6", "2", "0", "4", "6", "3", "1", "8">>, 24>>,
                  <<<<"6", "2", "0", "4", "4", "3", "9", "0", "9", "0">>, 24>>}
  IN  [k \in {e[1] : e \in entries} |-> (CHOOSE e \in entries : e[1] = k)[2]]

eu_countries == {"DE", "PT", "ES", "IE", "IT"}

\* dict.get(key, 0)
Get(dict, key) == IF key \in DOMAIN dict THEN dict[key] ELSE 0

\* main.py: the refund and its split for every returned line item of the EU
\* countries; refunds in 1/200 cent, the two shares in 1/40000 cent.
returns_df(t) ==
  LET df_eu == SelectRows(t, {i \in DOMAIN t : t[i].Country \in eu_countries})
      r == SelectRows(df_eu, {i \in DOMAIN df_eu : df_eu[i].QtyReturned > 0})
      vat(x) == x.UnitPrice * Get(main_vat_rates, x.Country) * x.QtyReturned
      duty(x) == IF x.Country = "IE" THEN 0
                 ELSE x.UnitPrice * Get(duty_rates, x.HSCode) * x.QtyReturned
  IN  [i \in DOMAIN r |->
         [Country |-> r[i].Country, ReturnVAT |-> vat(r[i]), ReturnDuty |-> duty(r[i]),
          TotalReturnRefund |-> vat(r[i]) + duty(r[i]),
          CustomerRefund |-> (vat(r[i]) + duty(r[i])) * 160,
          OurCommission |-> (vat(r[i]) + duty(r[i])) * 40]]

----------------------------------------------------------------------------
\* Input tables

MRN_NL1 == <<"2", "5", "N", "L", "1">>

MRN_IE1 == <<"2", "5", "I", "E", "1">>

P1 == <<"P", "1">>

P2 == <<"P", "2">>

HS_SHIRT == <<"6", "1", "0", "9", "1", "0">>

HS_OTHER == <<"9", "9", "9", "9", "0", "0">>

\* Duty-rate mappings handed to the high-value processors (prefix -> rate).
DutyDicts ==
  {[k \in {<<"6", "1", "0", "9">>} |-> 24],
   [k \in {<<"6", "1", "0", "9">>, <<"6", "2", "0", "3">>} |->
      IF k = <<"6", "1", "0", "9">> THEN 0 ELSE 16]}

Line(mrn, pid, c, qi, qr, p, hs) ==
  [MRN |-> mrn, ParcelID |-> pid, Country |-> c, QtyImported |-> qi,
   QtyReturned |-> qr, UnitPrice |-> p, HSCode |-> hs]

\* All tables of at most MaxLines line items drawn from rows.
Tables(rows) == UNION {[1..n -> rows] : n \in 0..MaxLines}

\* Line items around the threshold: 75.00 and 150.01 a piece, one or two pieces.
ClassifyRows ==
  {Line(m, P1, "DE", qi, 0, p, HS_SHIRT) :
     m \in {MRN_NL1, MRN_IE1}, qi \in {1, 2}, p \in {7500, 15001}}

\* Line items with and without a customs reference.
RekeyRows ==
  {Line(m, P1, "DE", 1, 0, 10000, HS_SHIRT) : m \in MissingSentinels \cup {NA, MRN_NL1}}
  \cup {Line(m, P2, "DE", 1, 0, 10000, HS_SHIRT) : m \in {NA, <<>>, MRN_NL1}}
  \cup {Line(NA, P1, "CH", 1, 0, 10000, HS_SHIRT)}

MRN_ie1 == <<"2", "5", "i", "e", "1">>

\* High-value line items of consignments declared in NL, in IE (upper and lower
\* case) and of parcels without an MRN.
DeclRows ==
  {Line(m, P1, c, 1, qr, 16000, HS_SHIRT) :
     m \in {MRN_NL1, MRN_IE1, MRN_ie1, NA}, c \in {"DE", "IE"}, qr \in {0, 1}}

\* Line items of 60.00 a piece to known and unknown countries, returned or not.
VatRows ==
  {Line(m, P1, c, 1, qr, 6000, HS_SHIRT) :
     m \in {MRN_NL1, MRN_IE1}, c \in {"DE", "IE", "FR"}, qr \in {0, 1}}

\* High-value line items with mapped and unmapped goods codes.
DutyRows ==
  {Line(m, P1, c, 2, 1, 8000, hs) :
     m \in {MRN_NL1}, c \in {"DE", "IE", "FR"}, hs \in {HS_SHIRT, HS_OTHER}}
  \cup {Line(MRN_NL1, P1, "DE", 2, 0, 8000, HS_SHIRT),
        Line(MRN_IE1, P1, "IE", 2, 1, 8000, HS_SHIRT),
        Line(MRN_IE1, P1, "DE", 2, 2, 8000, HS_OTHER)}

MRN_NL2 == <<"2", "5", "N", "L", "2">>

HS_POLO == <<"6", "1", "0", "5", "1", "0", "0", "0", "0", "0">>

\* A period of high-value consignments of 160.00 a line, declared in NL or IE
\* and destined for DE, IE or NL, and a low-value consignment of 70.00 a line.
SettleRows ==
  {Line(m, P1, c, 1, qr, 16000, HS_SHIRT) :
     m \in {MRN_NL1, MRN_IE1}, c \in {"DE", "IE", "NL"}, qr \in {0, 1}}
  \cup {Line(MRN_NL2, P2, c, 1, qr, 7000, HS_POLO) : c \in {"DE", "IE"}, qr \in {0, 1}}

\* A period of two high-value consignments declared in NL, of 160.00 a line,
\* with lines destined for NL or DE.
BrokerRows ==
  {Line(m, P1, c, 1, qr, 16000, HS_SHIRT) :
     m \in {MRN_NL1, MRN_NL2}, c \in {"NL", "DE"}, qr \in {0, 1}}

\* A period of a high-value consignment of 160.00 a line destined for DE or NL
\* and a low-value consignment of 70.00 a line, returned or not.
ProcessRows ==
  {Line(MRN_NL1, P1, c, 1, qr, 16000, HS_SHIRT) : c \in {"DE", "NL"}, qr \in {0, 1}}
  \cup {Line(MRN_NL2, P2, "DE", 1, qr, 7000, HS_POLO) : qr \in {0, 1}}

\* The data types and output folders process_data is called with.
DataTypes == {"csv", "xlsx", "json"}

OutputFolders == {"OCT_RESULTS", "NOV_RESULTS"}

\* Largest number of calls of process_data in one run of the program.
MaxRuns == 2

NoResults == [variant |-> "none"]

\* No call of main.process_data was made.
NoCall == [run |-> 0]

\* The thresholds separate_by_consignment_value is called with (cents).
Thresholds == {0 - 5000, 0, 7500, ThresholdCents}

InitWith(rows) ==
  /\ pc = "raw"
  /\ raw \in Tables(rows)
  /\ df = raw
  /\ loader = "none"
  /\ call_threshold = NaN
  /\ loaded = [low_value_df |-> <<>>, high_value_df |-> <<>>]
  /\ printed = {}
  /\ lv = NoResults
  /\ hv = NoResults
  /\ summary = NoResults
  /\ config = [DATA_DIR |-> <<".">>, VAT_RATES |-> VAT_RATES,
               COMMISSION_RATES |-> COMMISSION_RATES,
               DUTY_EXCLUDED_COUNTRIES |-> DUTY_EXCLUDED_COUNTRIES]
  /\ fs = [dirs |-> {<<".">>}, files |-> {}]
  /\ call = NoCall

Init == InitWith(VatRows)

InitClassify == InitWith(ClassifyRows)

InitRekey == InitWith(RekeyRows)

InitDecl == InitWith(DeclRows)

InitDuty == InitWith(DutyRows)

InitBroker == InitWith(BrokerRows)

InitProcess == InitWith(ProcessRows)

InitSettle == InitWith(SettleRows)

----------------------------------------------------------------------------
\* Steps

\* DataLayer.load_data, first call: clean_data.
Step_clean_data ==
  /\ pc = "raw"
  /\ df' = clean_data(df)
  /\ loader' = "DataLayer"
  /\ pc' = "cleaned"
  /\ UNCHANGED <<raw, call_threshold, loaded, printed, lv, hv, summary, config, fs, call>>

\* DataLayer.load_data, second call: add_calculated_fields and its warning.
Step_add_calculated_fields ==
  /\ pc = "cleaned"
  /\ df' = add_calculated_fields(df)
  /\ printed' = missing_countries(df')
  /\ pc' = "annotated"
  /\ UNCHANGED <<raw, loader, call_threshold, loaded, lv, hv, summary, config, fs, call>>

\* data_processing.load_and_preprocess_data (exclude_non_eu at its default).
Step_load_and_preprocess_data ==
  /\ pc = "raw"
  /\ df' = load_and_preprocess_data(df)
  /\ printed' = missing_countries(df')
  /\ loader' = "data_processing"
  /\ pc' = "annotated"
  /\ UNCHANGED <<raw, call_threshold, loaded, lv, hv, summary, config, fs, call>>

\* DataLayer.load_data, third call: separate_data(df, Config.CONSIGNMENT_THRESHOLD).
Step_separate_data ==
  /\ pc = "annotated"
  /\ loader = "DataLayer"
  /\ call_threshold' = ThresholdCents
  /\ loaded' = separate_data(df, ThresholdCents)
  /\ pc' = "separated"
  /\ UNCHANGED <<raw, loader, df, printed, lv, hv, summary, config, fs, call>>

\* data_processing.separate_by_consignment_value(df, threshold).
Step_separate_by_consignment_value ==
  /\ pc = "annotated"
  /\ loader = "data_processing"
  /\ \E th \in Thresholds :
       /\ call_threshold' = th
       /\ loaded' = separate_by_consignment_value(df, th)
  /\ pc' = "separated"
  /\ UNCHANGED <<raw, loader, df, printed, lv, hv, summary, config, fs, call>>

Step_process_low_value_data ==
  /\ pc = "separated"
  /\ lv' = process_low_value_data(low_value_df)
  /\ pc' = "lv_done"
  /\ fs' = store(fs, config.DATA_DIR, {"lv_vat_per_country_summary.xlsx"})
  /\ UNCHANGED <<raw, loader, df, call_threshold, loaded, printed, hv, summary, config, call>>

\* ProCarrier HighValueProcessor.process_high_value_data.
Step_PC_process_high_value_data ==
  /\ pc = "lv_done"
  /\ \E duty_dict \in DutyDicts : hv' = PC_process_high_value_data(high_value_df, duty_dict)
  /\ pc' = "done"
  /\ fs' = store(fs, config.DATA_DIR, {"HV_EU_REFUNDS.xlsx", "OSS_VAT_PER_COUNTRY.xlsx", "HV_IE_REFUNDS.xlsx"})
  /\ UNCHANGED <<raw, loader, df, call_threshold, loaded, printed, lv, summary, config, call>>

\* MainBusinessLogic HighValueProcessor.process_high_value_data.
Step_MBL_process_high_value_data ==
  /\ pc = "lv_done"
  /\ \E duty_dict \in DutyDicts : hv' = MBL_process_high_value_data(high_value_df, duty_dict)
  /\ pc' = "done"
  /\ UNCHANGED <<raw, loader, df, call_threshold, loaded, printed, lv, summary, config, fs, call>>

\* lv_processes.LowValueProcessor.process_low_value_data, called by main.process_data.
Step_lv_processes_process_low_value_data ==
  /\ pc = "separated"
  /\ loader = "DataLayer"
  /\ lv' = lv_processes_process_low_value_data(low_value_df)
  /\ pc' = "lv_done"
  /\ fs' = store(fs, config.DATA_DIR, {"IOSS_SUM.xlsx"})
  /\ UNCHANGED <<raw, loader, df, call_threshold, loaded, printed, hv, summary, config, call>>

\* MainBusinessLogic LowValueProcessor.process_low_value_data.
Step_MBL_process_low_value_data ==
  /\ pc = "separated"
  /\ loader = "DataLayer"
  /\ lv' = MBL_process_low_value_data(low_value_df)
  /\ pc' = "lv_done"
  /\ UNCHANGED <<raw, loader, df, call_threshold, loaded, printed, hv, summary, config, fs, call>>

\* main.process_data, last call: generate_summary_table(form).
Step_main_generate_summary_table ==
  /\ pc = "done"
  /\ lv.variant = "lv_processes"
  /\ hv.variant = "ProCarrier"
  /\ summary' = main_generate_summary_table(Form(lv, hv))
  /\ pc' = "settled"
  /\ fs' = store(fs, config.DATA_DIR, {"INFORMATION.xlsx"})
  /\ UNCHANGED <<raw, loader, df, call_threshold, loaded, printed, lv, hv, config, call>>

\* Services.generate_summary_table over the tables of the ProCarrier processors.
Step_Services_generate_summary_table ==
  /\ pc = "done"
  /\ lv.variant = "low_value_processor"
  /\ hv.variant = "ProCarrier"
  /\ summary' = Services_generate_summary_table(Form(lv, hv))
  /\ pc' = "settled"
  /\ fs' = store(fs, config.DATA_DIR, {"INFORMATION.xlsx"})
  /\ UNCHANGED <<raw, loader, df, call_threshold, loaded, printed, lv, hv, config, call>>

\* MainBusinessLogic Services.create_comprehensive_financial_breakdown over
\* the results of the MainBusinessLogic processors.
Step_create_comprehensive_financial_breakdown ==
  /\ pc = "done"
  /\ lv.variant = "MainBusinessLogic"
  /\ hv.variant = "MainBusinessLogic"
  /\ summary' = create_comprehensive_financial_breakdown(
                   lv.vat_per_country, lv.return_vat_per_country, hv.vat_to_return_from_nl,
                   hv.vat_per_country, hv.return_vat_per_country, hv.combined_refunds,
                   lv.DR_revenue, hv.DR_revenue.total_revenue)
  /\ pc' = "settled"
  /\ UNCHANGED <<raw, loader, df, call_threshold, loaded, printed, lv, hv, config, fs, call>>

\* The report script main.py, run on the table as read.
Step_returns_df ==
  /\ pc = "raw"
  /\ summary' = [variant |-> "script", returns_df |-> returns_df(raw)]
  /\ pc' = "reported"
  /\ UNCHANGED <<raw, loader, df, call_threshold, loaded, printed, lv, hv, config, fs, call>>

\* main.process_data, from its entry to the reading of the input file: the
\* validation of data_type, the output directory, Config.DATA_DIR, and the
\* locals of the call, which start empty. A call that raises leaves everything
\* as it was.
Step_process_data ==
  /\ call.run < MaxRuns
  /\ \/ pc = "raw" /\ call.run = 0
     \/ pc = "settled" /\ summary.variant = "main"
  /\ \E data_type \in DataTypes, output_folder \in OutputFolders :
       LET entry == process_data_entry(data_type, output_folder, config, fs)
       IN  /\ call' = [run |-> call.run + 1, data_type |-> data_type,
                       output_folder |-> output_folder, raised |-> entry.raised,
                       before |-> [config |-> config, fs |-> fs, loader |-> loader, df |-> df,
                                   loaded |-> loaded, lv |-> lv, hv |-> hv,
                                   summary |-> summary]]
           /\ config' = entry.config
           /\ fs' = entry.fs
           /\ IF entry.raised = "ValueError"
              THEN /\ pc' = "ValueError"
                   /\ UNCHANGED <<loader, df, call_threshold, loaded, printed, lv, hv, summary>>
              ELSE /\ pc' = "raw"
                   /\ loader' = "none"
                   /\ df' = raw
                   /\ call_threshold' = NaN
                   /\ loaded' = [low_value_df |-> <<>>, high_value_df |-> <<>>]
                   /\ printed' = {}
                   /\ lv' = NoResults
                   /\ hv' = NoResults
                   /\ summary' = NoResults
  /\ UNCHANGED raw

\* generate_dutch_vat_return reporting a net position of zero as a refund.
generate_dutch_vat_return_refund_at_zero(lv_data, hv_data) ==
  LET lv_vat_per_country == lv_data.vat_per_country
      lv_return_vat == lv_data.return_vat_per_country
      hv_vat_per_country == hv_data.vat_per_country
      hv_return_vat == hv_data.return_vat_per_country
      sales == SelectRows(hv_vat_per_country,
                          {i \in DOMAIN hv_vat_per_country : hv_vat_per_country[i].Country = "NL"})
      returns == SelectRows(hv_return_vat,
                            {i \in DOMAIN hv_return_vat : hv_return_vat[i].Country = "NL"})
      net_vat == (ColumnSum([i \in DOMAIN lv_vat_per_country |-> lv_vat_per_country[i].TotalVATToPay])
                    - ColumnSum([i \in DOMAIN lv_return_vat |-> lv_return_vat[i].TotalVATRefund]))
                 + (ColumnSum([i \in DOMAIN sales |-> sales[i].TotalVATToPay])
                      - ColumnSum([i \in DOMAIN returns |-> returns[i].TotalVATRefund]))
                 - hv_data.vat_to_return_from_nl
  IN  [variant |-> "dutch_vat_return", net_vat |-> net_vat,
       status |-> IF net_vat <= 0 THEN "REFUND DUE" ELSE "PAYMENT DUE"]

\* MainBusinessLogic VATReturnForms.generate_dutch_vat_return: the amounts of
\* the form and its status.
generate_dutch_vat_return(lv_data, hv_data) ==
  LET lv_vat_per_country == lv_data.vat_per_country
      lv_return_vat == lv_data.return_vat_per_country
      hv_vat_to_return_from_nl == hv_data.vat_to_return_from_nl
      hv_vat_per_country == hv_data.vat_per_country
      hv_return_vat == hv_data.return_vat_per_country
      ioss_sales == ColumnSum([i \in DOMAIN lv_vat_per_country |->
                                 lv_vat_per_country[i].TotalVATToPay])
      ioss_returns == ColumnSum([i \in DOMAIN lv_return_vat |-> lv_return_vat[i].TotalVATRefund])
      ioss_net == ioss_sales - ioss_returns
      sales == SelectRows(hv_vat_per_country,
                          {i \in DOMAIN hv_vat_per_country : hv_vat_per_country[i].Country = "NL"})
      nl_hv_sales == IF sales # <<>>
                     THEN ColumnSum([i \in DOMAIN sales |-> sales[i].TotalVATToPay]) ELSE 0
      returns == SelectRows(hv_return_vat,
                            {i \in DOMAIN hv_return_vat : hv_return_vat[i].Country = "NL"})
      nl_hv_returns == IF returns # <<>>
                       THEN ColumnSum([i \in DOMAIN returns |-> returns[i].TotalVATRefund]) ELSE 0
      nl_hv_net == nl_hv_sales - nl_hv_returns
      import_vat_reclaim == hv_vat_to_return_from_nl
      output_vat == ioss_net + nl_hv_net
      input_vat == import_vat_reclaim
      net_vat == output_vat - input_vat
  IN  [variant |-> "dutch_vat_return", ioss_sales |-> ioss_sales,
       ioss_returns |-> ioss_returns, ioss_net |-> ioss_net, nl_hv_sales |-> nl_hv_sales,
       nl_hv_returns |-> nl_hv_returns, nl_hv_net |-> nl_hv_net,
       output_vat |-> output_vat, input_vat |-> input_vat, net_vat |-> net_vat,
       status |-> IF net_vat < 0 THEN "REFUND DUE" ELSE "PAYMENT DUE"]

\* Largest number of rows of a per-country table handed to the forms.
MaxFormRows == 2

\* The per-country tables of VAT due and of VAT refunds of the high-value flow.
FormTables ==
  UNION {[1..n -> {[Country |-> c, amount |-> a] : c \in {"NL", "DE"}, a \in {1000, 3000}}] :
           n \in 0..MaxFormRows}

\* The table t of country and amount with its amount under the column name col.
Named(t, col) ==
  [i \in DOMAIN t |->
     IF col = "TotalVATToPay" THEN [Country |-> t[i].Country, TotalVATToPay |-> t[i].amount]
     ELSE [Country |-> t[i].Country, TotalVATRefund |-> t[i].amount]]

\* The data the forms are generated from: the low-value tables of one row at
\* most, the high-value tables, and the import VAT to reclaim.
FormInputs ==
  {[lv_data |-> [vat_per_country |-> Named(lv_due, "TotalVATToPay"),
                 return_vat_per_country |-> Named(lv_back, "TotalVATRefund")],
    hv_data |-> [vat_to_return_from_nl |-> reclaim,
                 vat_per_country |-> Named(hv_due, "TotalVATToPay"),
                 return_vat_per_country |-> Named(hv_back, "TotalVATRefund")]] :
     lv_due \in {<<>>, <<[Country |-> "DE", amount |-> 5000]>>},
     lv_back \in {<<>>, <<[Country |-> "DE", amount |-> 2000]>>},
     hv_due \in FormTables, hv_back \in FormTables,
     reclaim \in {0, 4000, 9000}}

\* A run of an operation that computes its result from its arguments alone:
\* the arguments are in raw, nothing else is there.
InitOf(inputs) ==
  /\ pc = "raw"
  /\ raw \in inputs
  /\ df = <<>>
  /\ loader = "none"
  /\ call_threshold = NaN
  /\ loaded = [low_value_df |-> <<>>, high_value_df |-> <<>>]
  /\ printed = {}
  /\ lv = NoResults
  /\ hv = NoResults
  /\ summary = NoResults
  /\ config = [DATA_DIR |-> <<".">>, VAT_RATES |-> VAT_RATES,
               COMMISSION_RATES |-> COMMISSION_RATES,
               DUTY_EXCLUDED_COUNTRIES |-> DUTY_EXCLUDED_COUNTRIES]
  /\ fs = [dirs |-> {<<".">>}, files |-> {}]
  /\ call = NoCall

InitForms == InitOf(FormInputs)

\* VATReturnForms.generate_dutch_vat_return(lv_data, hv_data).
Step_generate_dutch_vat_return ==
  /\ pc = "raw"
  /\ summary' = generate_dutch_vat_return(raw.lv_data, raw.hv_data)
  /\ pc' = "reported"
  /\ UNCHANGED <<raw, loader, df, call_threshold, loaded, printed, lv, hv, config, fs, call>>

NextForms == Step_generate_dutch_vat_return

----------------------------------------------------------------------------
\* Samos Billing Calculator
\*
\* Prices are in CAD cents. The rates are fractions with small denominators, so
\* every amount is an exact integer: CAD_TO_GBP_RATE in fiftieths, the VAT, duty
\* and fee rates in twentieths. 'Line Item Total Value GBP' is in 1/50 penny,
\* 'UK Duty' in 1/1000 penny, 'UK VAT' in 1/20000 penny, fees and the total in
\* 1/400000 penny.

UK_VAT_RATE == 4

UK_DUTY_RATE == 0

BASE_FEE_PER_ORDER == 100

PERCENTAGE_FEE == 1

CAD_TO_GBP_RATE == 27

NaT == "NaT"

\* The export dates pd.to_datetime can parse.
Dates == {"2025-11-03"}

\* pd.to_datetime(x, errors='coerce') of one cell.
to_datetime(x) == IF x \in Dates THEN x ELSE NaT

\* clean_data: the repeated header rows are removed, the export date is parsed,
\* a missing exported quantity becomes 0.
Samos_clean_data(t) ==
  LET body == SelectRows(t, {i \in DOMAIN t : t[i].Tracking # "FedEx Tracking #"})
  IN  [i \in DOMAIN body |->
         [body[i] EXCEPT !.ExportDate = to_datetime(@), !.QtyExported = Fill0(@)]]

calculate_vat_and_duty(t) ==
  [i \in DOMAIN t |->
     LET unit_price_gbp == t[i].UnitPriceCAD * CAD_TO_GBP_RATE
         total_value_gbp == unit_price_gbp * t[i].QtyImported
         uk_duty == total_value_gbp * UK_DUTY_RATE
     IN  [Tracking |-> t[i].Tracking, ParcelID |-> t[i].ParcelID, Country |-> t[i].Country,
          ExportDate |-> t[i].ExportDate, QtyImported |-> t[i].QtyImported,
          QtyExported |-> t[i].QtyExported, UnitPriceCAD |-> t[i].UnitPriceCAD,
          UnitPriceGBP |-> unit_price_gbp, TotalValueGBP |-> total_value_gbp,
          UKDuty |-> uk_duty, UKVAT |-> (total_value_gbp * 20 + uk_duty) * UK_VAT_RATE]]

\* get_order_type typing the rows by their export date alone.
get_order_type_by_export(row) ==
  IF row.ExportDate = NaT THEN "UK Order" ELSE "EU Order"

\* classify_orders.get_order_type(row).
get_order_type(row) ==
  IF row.Country = "GB"
  THEN IF row.ExportDate = NaT THEN "UK Order" ELSE "UK Return"
  ELSE IF row.ExportDate # NaT THEN "EU Order" ELSE "Unknown"

classify_orders(t) ==
  [i \in DOMAIN t |->
     [Tracking |-> t[i].Tracking, ParcelID |-> t[i].ParcelID, Country |-> t[i].Country,
      ExportDate |-> t[i].ExportDate, QtyImported |-> t[i].QtyImported,
      QtyExported |-> t[i].QtyExported, UnitPriceCAD |-> t[i].UnitPriceCAD,
      UnitPriceGBP |-> t[i].UnitPriceGBP, TotalValueGBP |-> t[i].TotalValueGBP,
      UKDuty |-> t[i].UKDuty, UKVAT |-> t[i].UKVAT, OrderType |-> get_order_type(t[i])]]

\* df[df['Order Type'] == order_type]
OfType(t, order_type) == SelectRows(t, {i \in DOMAIN t : t[i].OrderType = order_type})

\* Series.nunique() of 'Parcel ID': the distinct identifiers, a missing one not counted.
nunique(t) == Cardinality({t[i].ParcelID : i \in DOMAIN t} \ {NA})

\* groupby('Parcel ID').agg(sum) with its 'Fee' column, summed: per parcel the
\* base fee plus the percentage of its duty and VAT; the rows without a Parcel
\* ID are in no group.
GroupedFee(orders) ==
  LET parcels == {orders[i].ParcelID : i \in DOMAIN orders} \ {NA}
      fee == [p \in parcels |->
                LET rows == {i \in DOMAIN orders : orders[i].ParcelID = p}
                IN  BASE_FEE_PER_ORDER * 400000
                      + PERCENTAGE_FEE
                          * (SumOver([i \in DOMAIN orders |-> orders[i].UKDuty], rows) * 20
                               + SumOver([i \in DOMAIN orders |-> orders[i].UKVAT], rows))]
  IN  SumOver(fee, parcels)

\* calculate_invoice with a fee for the returned UK parcels too.
calculate_invoice_fee_on_returns(t) ==
  LET uk_orders == OfType(t, "UK Order")
      uk_returns == OfType(t, "UK Return")
      eu_orders == OfType(t, "EU Order")
      total_fee == GroupedFee(uk_orders) + GroupedFee(eu_orders) + GroupedFee(uk_returns)
  IN  [TotalDutyRefundsFee |-> total_fee,
       TOTALINVOICE |->
         (ColumnSum([i \in DOMAIN uk_orders |-> uk_orders[i].UKVAT])
            - ColumnSum([i \in DOMAIN uk_returns |-> uk_returns[i].UKVAT])) * 20
         + (ColumnSum([i \in DOMAIN uk_orders |-> uk_orders[i].UKDuty])
              - ColumnSum([i \in DOMAIN uk_returns |-> uk_returns[i].UKDuty])) * 400
         + total_fee]

calculate_invoice(t) ==
  LET uk_orders == OfType(t, "UK Order")
      uk_vat_charged == ColumnSum([i \in DOMAIN uk_orders |-> uk_orders[i].UKVAT])
      uk_duty_charged == ColumnSum([i \in DOMAIN uk_orders |-> uk_orders[i].UKDuty])
      uk_returns == OfType(t, "UK Return")
      uk_vat_returned == ColumnSum([i \in DOMAIN uk_returns |-> uk_returns[i].UKVAT])
      uk_duty_returned == ColumnSum([i \in DOMAIN uk_returns |-> uk_returns[i].UKDuty])
      eu_orders == OfType(t, "EU Order")
      uk_fee == GroupedFee(uk_orders)
      eu_fee == GroupedFee(eu_orders)
      total_fee == uk_fee + eu_fee
  IN  [UKVATCharged |-> uk_vat_charged, UKDutyCharged |-> uk_duty_charged,
       UKVATReturned |-> uk_vat_returned, UKDutyReturned |-> uk_duty_returned,
       EUVATNotCharged |-> ColumnSum([i \in DOMAIN eu_orders |-> eu_orders[i].UKVAT]),
       EUDutyNotCharged |-> ColumnSum([i \in DOMAIN eu_orders |-> eu_orders[i].UKDuty]),
       UKOrderCount |-> nunique(uk_orders), EUOrderCount |-> nunique(eu_orders),
       UKReturnCount |-> nunique(uk_returns),
       TotalOrderCount |-> nunique(uk_orders) + nunique(eu_orders),
       DutyRefundsFeeUK |-> uk_fee, DutyRefundsFeeEU |-> eu_fee,
       TotalDutyRefundsFee |-> total_fee,
       TOTALINVOICE |->
         (uk_vat_charged - uk_vat_returned) * 20
           + (uk_duty_charged - uk_duty_returned) * 400 + total_fee]

Order(tracking, pid, c, date, p) ==
  [Tracking |-> tracking, ParcelID |-> pid, Country |-> c, ExportDate |-> date,
   QtyImported |-> 1, QtyExported |-> NaN, UnitPriceCAD |-> p]

\* Order lines of 10.00 CAD for the UK or France, exported or not, of two
\* parcels or of none; a line of 20.00 CAD; a line with an export date that is
\* no date; a repeated header row.
SamosRows ==
  {Order("7001", pid, c, date, 1000) :
     pid \in {P1, P2, NA}, c \in {"GB", "FR"}, date \in {"", "2025-11-03"}}
  \cup {Order("7002", P1, c, "", 2000) : c \in {"GB", "FR"}}
  \cup {Order("7003", P2, "GB", "n/a", 1000),
        Order("FedEx Tracking #", <<"P", "a", "r", "c", "e", "l">>, "Country",
              "UK Export Date", NaN)}

InitSamos == InitOf(Tables(SamosRows))

\* main: clean_data(df).
Step_Samos_clean_data ==
  /\ pc = "raw"
  /\ df' = Samos_clean_data(raw)
  /\ pc' = "cleaned"
  /\ UNCHANGED <<raw, loader, call_threshold, loaded, printed, lv, hv, summary, config, fs, call>>

\* main: calculate_vat_and_duty(df).
Step_calculate_vat_and_duty ==
  /\ pc = "cleaned"
  /\ df' = calculate_vat_and_duty(df)
  /\ pc' = "annotated"
  /\ UNCHANGED <<raw, loader, call_threshold, loaded, printed, lv, hv, summary, config, fs, call>>

\* main: classify_orders(df).
Step_classify_orders ==
  /\ pc = "annotated"
  /\ df' = classify_orders(df)
  /\ pc' = "classified"
  /\ UNCHANGED <<raw, loader, call_threshold, loaded, printed, lv, hv, summary, config, fs, call>>

\* main: calculate_invoice(df).
Step_calculate_invoice ==
  /\ pc = "classified"
  /\ summary' = [variant |-> "Samos", invoice |-> calculate_invoice(df)]
  /\ pc' = "invoiced"
  /\ UNCHANGED <<raw, loader, df, call_threshold, loaded, printed, lv, hv, config, fs, call>>

NextSamos ==
  \/ Step_Samos_clean_data
  \/ Step_calculate_vat_and_duty
  \/ Step_classify_orders
  \/ Step_calculate_invoice

----------------------------------------------------------------------------
\* TedBaker DutyProcessor
\*
\* Cells of the tariff sheet are sequences of characters. A duty rate is an
\* integer number of thousandths of a percent: 0.12 is 12000.

Digits == <<"0", "1", "2", "3", "4", "5", "6", "7", "8", "9">>

\* \d
IsDigit(c) == \E d \in DOMAIN Digits : Digits[d] = c

\* \s
IsSpace(c) == c = " "

\* str(val).strip()
RECURSIVE strip(_)
strip(s) ==
  IF s = <<>> THEN s
  ELSE IF IsSpace(Head(s)) THEN strip(Tail(s))
  ELSE IF IsSpace(s[Len(s)]) THEN strip(SubSeq(s, 1, Len(s) - 1))
  ELSE s

\* The number a sequence of digits denotes.
RECURSIVE DigitsValue(_)
DigitsValue(s) ==
  IF s = <<>> THEN 0
  ELSE 10 * DigitsValue(SubSeq(s, 1, Len(s) - 1))
       + (CHOOSE d \in DOMAIN Digits : Digits[d] = s[Len(s)]) - 1

\* float(num.replace(',', '.')) / 100.0 of the text num = digits, separator,
\* digits, as thousandths of a percent; decimals beyond the third are cut.
RateOfNumber(num) ==
  LET n1 == Cardinality({k \in DOMAIN num : \A j \in 1..k : IsDigit(num[j])})
      whole == DigitsValue(SubSeq(num, 1, n1))
      frac == SubSeq(num, n1 + 2, Len(num))
      d(k) == IF k <= Len(frac) THEN DigitsValue(<<frac[k]>>) ELSE 0
  IN  whole * 1000 + d(1) * 100 + d(2) * 10 + d(3)

\* The ways ([\d]+[.,]?\d*) matches s from position i: the number of leading
\* digits, whether a separator follows, the number of digits after it.
NumberMatches(s, i) ==
  {m \in (1..Len(s)) \X {0, 1} \X (0..Len(s)) :
     /\ i + m[1] + m[2] + m[3] - 1 <= Len(s)
     /\ \A j \in i..(i + m[1] - 1) : IsDigit(s[j])
     /\ m[2] = 1 => s[i + m[1]] \in {".", ","}
     /\ \A j \in (i + m[1] + m[2])..(i + m[1] + m[2] + m[3] - 1) : IsDigit(s[j])}

\* \s*% matches s from position e.
PercentFollows(s, e) ==
  \E k \in e..Len(s) :
    /\ s[k] = "%"
    /\ \A j \in e..(k - 1) : IsSpace(s[j])

\* The match the greedy quantifiers prefer: most leading digits, then the
\* separator, then most digits after it.
Preferred(M) ==
  CHOOSE m \in M : \A o \in M :
    \/ m[1] > o[1]
    \/ m[1] = o[1] /\ m[2] > o[2]
    \/ m[1] = o[1] /\ m[2] = o[2] /\ m[3] >= o[3]

\* re.search finding nothing; a match of the number pattern is never empty.
NoMatch == <<>>

\* re.search(r'([\d]+[.,]?\d*)\s*%', s).group(1), or NoMatch.
SearchPercentage(s) ==
  LET ok(i) == {m \in NumberMatches(s, i) : PercentFollows(s, i + m[1] + m[2] + m[3])}
      starts == {i \in DOMAIN s : ok(i) # {}}
  IN  IF starts = {} THEN NoMatch
      ELSE LET i == CHOOSE a \in starts : \A b \in starts : a <= b
               m == Preferred(ok(i))
           IN  SubSeq(s, i, i + m[1] + m[2] + m[3] - 1)

\* re.search(r'^([\d]+[.,]?\d*)$', s).group(1), or NoMatch.
SearchNumber(s) ==
  IF \E m \in NumberMatches(s, 1) : m[1] + m[2] + m[3] = Len(s) THEN s ELSE NoMatch

\* DutyProcessor.parse_duty_rate: the first percentage of the text; a text that
\* is a number and nothing else is a percentage too; otherwise NaN.
parse_duty_rate(val) ==
  IF isna(val) THEN NaN
  ELSE LET s == strip(val)
           m == SearchPercentage(s)
           m2 == SearchNumber(s)
       IN  IF m # NoMatch THEN RateOfNumber(m)
           ELSE IF m2 # NoMatch THEN RateOfNumber(m2)
           ELSE NaN

\* df['Goods code'].astype(str): a missing cell becomes the text 'nan'.
astype_str(x) == IF isna(x) THEN <<"n", "a", "n">> ELSE x

\* Series.max() of the cells of idx, NaN cells skipped; NaN when none is left.
GroupMax(cells, idx) ==
  LET present == {i \in idx : cells[i] # NaN}
  IN  IF present = {} THEN NaN
      ELSE cells[CHOOSE i \in present : \A j \in present : cells[i] >= cells[j]]

\* process_duty_data without the filter on 'Origin'.
process_duty_data_all_origins(t) ==
  LET code == [i \in DOMAIN t |-> Slice(astype_str(t[i].GoodsCode), 0, 4)]
      rate == [i \in DOMAIN t |-> parse_duty_rate(t[i].Duty)]
      grp(k) == {i \in DOMAIN t : code[i] = k}
      keys == {code[i] : i \in DOMAIN t}
      kept == {k \in keys : GroupMax(rate, grp(k)) # NaN}
  IN  [k \in kept |-> GroupMax(rate, grp(k))]

\* DutyProcessor.process_duty_data: the rows of origin 'ERGA OMNES', their
\* parsed rates, the maximum per 4-character prefix, NaN maxima dropped.
process_duty_data(t) ==
  LET code == [i \in DOMAIN t |-> Slice(astype_str(t[i].GoodsCode), 0, 4)]
      erga == {i \in DOMAIN t : t[i].Origin = "ERGA OMNES"}
      rate == [i \in DOMAIN t |-> parse_duty_rate(t[i].Duty)]
      grp(k) == {i \in erga : code[i] = k}
      keys == {code[i] : i \in erga}
      kept == {k \in keys : GroupMax(rate, grp(k)) # NaN}
  IN  [k \in kept |-> GroupMax(rate, grp(k))]

\* Largest number of rows of a tariff sheet.
MaxTariffRows == 4

Tariff(code, origin, duty) == [GoodsCode |-> code, Origin |-> origin, Duty |-> duty]

HS_POLO_OTHER == <<"6", "1", "0", "9", "9", "0">>

HS_SUIT == <<"6", "2", "0", "3", "4", "2">>

\* '12.000 %'
DUTY_12 == <<"1", "2", ".", "0", "0", "0", " ", "%">>

\* ' 8,5%'
DUTY_8_5 == <<" ", "8", ",", "5", "%">>

\* '0 %'
DUTY_0 == <<"0", " ", "%">>

\* '7'
DUTY_7 == <<"7">>

\* '20 %'
DUTY_20 == <<"2", "0", " ", "%">>

\* 'NAR'
DUTY_NAR == <<"N", "A", "R">>

\* 'Cond: 3'
DUTY_COND == <<"C", "o", "n", "d", ":", " ", "3">>

\* Tariff rows of two prefixes: ERGA OMNES rows with and without a parseable
\* rate, rows of another origin with a higher rate, a row without goods code.
TariffRows ==
  {Tariff(HS_SHIRT, "ERGA OMNES", d) : d \in {DUTY_12, DUTY_NAR}}
  \cup {Tariff(HS_POLO_OTHER, "ERGA OMNES", d) : d \in {DUTY_8_5, DUTY_0}}
  \cup {Tariff(HS_SUIT, "ERGA OMNES", d) : d \in {DUTY_NAR, DUTY_7, DUTY_COND, NA}}
  \cup {Tariff(c, "CH", DUTY_20) : c \in {HS_SHIRT, HS_SUIT}}
  \cup {Tariff(NA, "ERGA OMNES", DUTY_0)}

TariffSheets == UNION {[1..n -> TariffRows] : n \in 0..MaxTariffRows}

InitTariff == InitOf(TariffSheets)

\* main: duty_dict = DutyProcessor.process_duty_data(duty_data).
Step_process_duty_data ==
  /\ pc = "raw"
  /\ summary' = [variant |-> "TedBaker", duty_dict |-> process_duty_data(raw)]
  /\ pc' = "duty_done"
  /\ UNCHANGED <<raw, loader, df, call_threshold, loaded, printed, lv, hv, config, fs, call>>

NextTariff == Step_process_duty_data

Next ==
  \/ Step_clean_data
  \/ Step_add_calculated_fields
  \/ Step_load_and_preprocess_data
  \/ Step_separate_data
  \/ Step_separate_by_consignment_value
  \/ Step_process_low_value_data
  \/ Step_PC_process_high_value_data
  \/ Step_MBL_process_high_value_data
  \/ Step_lv_processes_process_low_value_data
  \/ Step_MBL_process_low_value_data
  \/ Step_main_generate_summary_table
  \/ Step_Services_generate_summary_table
  \/ Step_create_comprehensive_financial_breakdown
  \/ Step_returns_df

\* The program main.py of ProCarrier: calls of process_data, each running the
\* loader and the processors main.py imports.
NextProcess ==
  \/ Step_process_data
  \/ /\ call.run > 0
     /\ \/ Step_clean_data
        \/ Step_add_calculated_fields
        \/ Step_separate_data
        \/ Step_lv_processes_process_low_value_data
        \/ Step_PC_process_high_value_data
        \/ Step_main_generate_summary_table

Spec == Init /\ [][Next]_vars

SpecClassify == InitClassify /\ [][Next]_vars

SpecRekey == InitRekey /\ [][Next]_vars

SpecDecl == InitDecl /\ [][Next]_vars

SpecTariff == InitTariff /\ [][NextTariff]_vars

SpecDuty == InitDuty /\ [][Next]_vars

SpecBroker == InitBroker /\ [][Next]_vars

SpecProcess == InitProcess /\ [][NextProcess]_vars

SpecForms == InitForms /\ [][NextForms]_vars

SpecSamos == InitSamos /\ [][NextSamos]_vars

SpecSettle == InitSettle /\ [][Next]_vars

----------------------------------------------------------------------------
\* Properties

RECURSIVE Sum(_, _)
\* The sum of f[i] over i in S.
Sum(f, S) ==
  IF S = {} THEN 0
  ELSE LET i == CHOOSE j \in S : TRUE IN f[i] + Sum(f, S \ {i})

\* Quantity imported x unit price, summed over all line items of consignment m.
TrueValue(t, m) ==
  Sum([i \in DOMAIN t |-> t[i].QtyImported * t[i].UnitPrice],
      {i \in DOMAIN t : t[i].MRN = m})

\* The table went through clean_data.
Cleaned == pc \notin {"raw", "reported"}

Annotated == pc \in {"annotated", "separated", "lv_done", "done", "settled"}

Separated == pc \in {"separated", "lv_done", "done", "settled"}

\* C1: the separation puts every line item in exactly one of the two tables,
\* keeps the line items of one MRN together, puts no MRN in both tables and
\* loses no MRN, whatever the table and the threshold.
C1_Partition ==
  Separated =>
    /\ Len(low_value_df) + Len(high_value_df) = Len(df)
    /\ \A i \in DOMAIN df :
         Count(low_value_df, df[i]) + Count(high_value_df, df[i]) = Count(df, df[i])
    /\ \A i, j \in DOMAIN df :
         df[i].MRN = df[j].MRN =>
           (df[i] \in Rows(high_value_df) <=> df[j] \in Rows(high_value_df))
    /\ MRNs(low_value_df) \cap MRNs(high_value_df) = {}
    /\ MRNs(low_value_df) \cup MRNs(high_value_df) = MRNs(df)

\* A separation with both tables filled and a high-value consignment of two lines
\* one of which alone is below the threshold.
C1_Witness ==
  /\ pc = "separated"
  /\ low_value_df # <<>>
  /\ \E i, j \in DOMAIN high_value_df :
       /\ i # j
       /\ high_value_df[i].MRN = high_value_df[j].MRN
       /\ high_value_df[i].QtyImported * high_value_df[i].UnitPrice <= call_threshold

\* C2: with the configured threshold of 150 a consignment is high-value iff its
\* value is strictly greater than 150.00: 150.00 is low-value, 150.01 high-value.
C2_StrictThreshold ==
  (Separated /\ loader = "DataLayer") =>
    \A i \in DOMAIN df :
      LET v == TrueValue(df, df[i].MRN)
      IN  /\ df[i] \in Rows(high_value_df) <=> v > CONSIGNMENT_THRESHOLD * 100
          /\ df[i] \in Rows(low_value_df) <=> v <= CONSIGNMENT_THRESHOLD * 100

\* A consignment of exactly 150.00 in the low-value table next to one of 150.01
\* in the high-value table.
C2_Witness ==
  /\ pc = "separated"
  /\ loader = "DataLayer"
  /\ \E i \in DOMAIN low_value_df : TrueValue(df, low_value_df[i].MRN) = 15000
  /\ \E j \in DOMAIN high_value_df : TrueValue(df, high_value_df[j].MRN) = 15001

\* C3: after the load-and-annotate step the 'Consignment Value' of every line
\* item is the sum of quantity imported x unit price over all line items of
\* its MRN.
C3_ConsignmentValue ==
  Annotated =>
    \A i \in DOMAIN df : df[i].ConsignmentValue = TrueValue(df, df[i].MRN)

\* The references the claim counts as blank.
BlankReferences == {<<"#", "N", "/", "A">>, <<"N", "/", "A">>, <<"N", "A">>, <<"n", "a">>, <<>>}

IsBlank(m) == m = NA \/ m \in BlankReferences

\* The line items of the input that are not dropped for their country.
KeptInput == SelectRows(raw, {i \in DOMAIN raw : raw[i].Country \notin {"IC", "CH"}})

\* C4: cleaning re-keys exactly the line items without an MRN, each to its own
\* Parcel ID; two such line items share a consignment only if they share the
\* Parcel ID, and no consignment is keyed by a blank reference.
C4_Rekey ==
  Cleaned =>
    LET kept == KeptInput
        blank == {i \in DOMAIN kept : IsBlank(kept[i].MRN)}
    IN  /\ Len(df) = Len(kept)
        /\ \A i \in DOMAIN df :
             /\ df[i].ParcelID = kept[i].ParcelID
             /\ df[i].MRN = IF i \in blank THEN kept[i].ParcelID ELSE kept[i].MRN
             /\ ~IsBlank(df[i].MRN)
        /\ \A i, j \in blank : df[i].MRN = df[j].MRN => kept[i].ParcelID = kept[j].ParcelID

\* A cleaned table with a missing MRN, a sentinel MRN of another parcel, and a
\* real MRN, after a line item was dropped for its country.
C4_Witness ==
  /\ pc = "cleaned"
  /\ Len(raw) > Len(df)
  /\ \E i, j \in DOMAIN df :
       /\ KeptInput[i].MRN = NA
       /\ KeptInput[j].MRN \in BlankReferences
       /\ df[i].MRN # df[j].MRN

LowValueDone == pc \in {"lv_done", "done", "settled"}

\* The first line item of consignment m in table t.
FirstLine(t, m) == t[CHOOSE i \in DOMAIN t : t[i].MRN = m /\ \A j \in 1..(i - 1) : t[j].MRN # m]

\* Consignment value x VAT rate summed over the distinct consignments of t; a
\* consignment to a country without a VAT rate has no amount to add.
VatDue(t) ==
  Sum([m \in MRNs(t) |->
         IF FirstLine(t, m).VATRate = NaN THEN 0
         ELSE FirstLine(t, m).ConsignmentValue * FirstLine(t, m).VATRate],
      MRNs(t))

TotalVATToPay(t) == Sum([n \in DOMAIN t |-> t[n].TotalVATToPay], DOMAIN t)

\* C5: the 'Total VAT to Pay' of the rows of calculate_vat_per_country add up to
\* consignment value x VAT rate summed once per consignment of the input.
C5_VatConservation ==
  /\ LowValueDone => TotalVATToPay(lv.vat_per_country) = VatDue(lv.input)
  /\ (pc = "done" /\ hv.variant = "MainBusinessLogic") =>
       TotalVATToPay(hv.vat_per_country) = VatDue(NotNL(hv.input))

\* Low-value consignments of one and of two line items in the same country.
C5_Witness ==
  /\ pc = "lv_done"
  /\ Cardinality(MRNs(lv.input)) = 2
  /\ Len(lv.input) = 3
  /\ Len(lv.vat_per_country) = 1
  /\ TotalVATToPay(lv.vat_per_country) > 0

\* The returned line items of table t for country c at VAT rate r.
ReturnedOf(t, c, r) ==
  {i \in DOMAIN t : t[i].QtyReturned > 0 /\ t[i].Country = c /\ t[i].VATRate = r}

\* The rows of out are the VAT refunds per (country, rate) of the returned lines of t.
IsReturnSummary(out, t) ==
  LET keys == {<<t[i].Country, t[i].VATRate>> :
                 i \in {j \in DOMAIN t : t[j].QtyReturned > 0 /\ t[j].VATRate # NaN}}
  IN  /\ {<<out[n].Country, out[n].VATRate>> : n \in DOMAIN out} = keys
      /\ Len(out) = Cardinality(keys)
      /\ \A n \in DOMAIN out :
           LET lines == ReturnedOf(t, out[n].Country, out[n].VATRate)
           IN  /\ out[n].TotalReturnedValue =
                    Sum([i \in DOMAIN t |-> t[i].QtyReturned * t[i].UnitPrice], lines)
               /\ out[n].TotalVATRefund =
                    Sum([i \in DOMAIN t |-> t[i].QtyReturned * t[i].UnitPrice * t[i].VATRate], lines)

\* C6: calculate_return_vat_per_country has one row per (country, VAT rate) with
\* a returned line, holding the sums of quantity returned x unit price and of
\* quantity returned x unit price x rate over the returned lines only.
C6_ReturnVat ==
  /\ LowValueDone => IsReturnSummary(lv.return_vat_per_country, lv.input)
  /\ (pc = "done" /\ hv.variant = "MainBusinessLogic") =>
       IsReturnSummary(hv.return_vat_per_country, hv.input)

\* Two returned lines of one country, and a country whose only line was not returned.
C6_Witness ==
  /\ pc = "lv_done"
  /\ Len(lv.return_vat_per_country) = 1
  /\ \E i, j \in DOMAIN lv.input :
       /\ i # j
       /\ lv.input[i].QtyReturned > 0 /\ lv.input[j].QtyReturned > 0
       /\ lv.input[i].Country = lv.input[j].Country
  /\ \E k \in DOMAIN lv.input :
       /\ lv.input[k].QtyReturned = 0
       /\ lv.input[k].VATRate # NaN
       /\ lv.input[k].Country \notin TableCountries(lv.return_vat_per_country)

\* The tables of the high-value run that both processors produce.
VatRefundTable ==
  IF hv.variant = "ProCarrier" THEN hv.nl_results.return_rgr ELSE hv.return_vat_per_country

DutyTable ==
  IF hv.variant = "ProCarrier" THEN hv.nl_results.duty_returned_by_country
  ELSE hv.duty_returned_by_country

MergedTable ==
  IF hv.variant = "ProCarrier" THEN hv.nl_results.combined_refunds ELSE hv.combined_refunds

TotalDuty(t) == Sum([n \in DOMAIN t |-> t[n].TotalDutyReturned], DOMAIN t)

\* C7: the duty refund of the duty-excluded country (IE) is 0 in the duty table,
\* in the merged refund table (so its total refund is its VAT refund) and in
\* the total duty refund, in every high-value processor.
C7_ExcludedCountryNoDuty ==
  pc = "done" =>
    /\ \A n \in DOMAIN DutyTable :
         DutyTable[n].Country \in DUTY_EXCLUDED_COUNTRIES => DutyTable[n].TotalDutyReturned = 0
    /\ \A n \in DOMAIN MergedTable :
         MergedTable[n].Country \in DUTY_EXCLUDED_COUNTRIES =>
           /\ MergedTable[n].TotalDutyReturned = 0
           /\ MergedTable[n].TotalRefund = MergedTable[n].TotalVATRefund
    /\ hv.variant = "MainBusinessLogic" =>
         hv.return_duty_amount =
           TotalDuty(SelectRows(DutyTable, {n \in DOMAIN DutyTable :
                                   DutyTable[n].Country \notin DUTY_EXCLUDED_COUNTRIES}))

\* The first four characters of a goods code.
Prefix4(code) == SubSeq(code, 1, 4)

\* The returned line items of table t for country c.
ReturnedTo(t, c) == {i \in DOMAIN t : t[i].QtyReturned > 0 /\ t[i].Country = c}

\* C8: calculate_duty_for_returned_items has, for each country outside the duty
\* exclusion with a returned line, one row whose duty is the sum over the
\* returned lines with a mapped prefix of quantity returned x unit price x
\* mapped rate, and whose returned value counts the unmapped lines as well.
C8_UnmappedCodeAddsZero ==
  pc = "done" =>
    LET t == hv.input
        d == hv.duty_dict
        countries == {t[i].Country : i \in {j \in DOMAIN t : t[j].QtyReturned > 0}}
                       \ DUTY_EXCLUDED_COUNTRIES
    IN  /\ countries \subseteq TableCountries(DutyTable)
        /\ TableCountries(DutyTable) \ DUTY_EXCLUDED_COUNTRIES \subseteq countries
        /\ \A n, k \in DOMAIN DutyTable : DutyTable[n].Country = DutyTable[k].Country => n = k
        /\ \A n \in DOMAIN DutyTable :
             DutyTable[n].Country \in countries =>
               LET lines == ReturnedTo(t, DutyTable[n].Country)
                   mapped == {i \in lines : Prefix4(t[i].HSCode) \in DOMAIN d}
               IN  /\ DutyTable[n].TotalDutyReturned =
                        Sum([i \in mapped |->
                               t[i].QtyReturned * t[i].UnitPrice * d[Prefix4(t[i].HSCode)]],
                            mapped)
                   /\ DutyTable[n].TotalReturnedValue =
                        Sum([i \in lines |-> t[i].QtyReturned * t[i].UnitPrice], lines)

\* A country with a returned line of a mapped, dutiable code and a returned line
\* of an unmapped code.
C8_Witness ==
  /\ pc = "done"
  /\ hv.variant = "ProCarrier"
  /\ \E n \in DOMAIN DutyTable :
       /\ DutyTable[n].TotalDutyReturned > 0
       /\ \E i \in ReturnedTo(hv.input, DutyTable[n].Country) :
            Prefix4(hv.input[i].HSCode) \notin DOMAIN hv.duty_dict

\* The destination countries of the loaded line items that have no VAT rate.
UnresolvedCountries == {df[i].Country : i \in {j \in DOMAIN df : df[j].Country \notin DOMAIN VAT_RATES}}

\* The goods-code prefixes of the returned high-value line items that have no duty rate.
UnmappedCodes ==
  {Prefix4(hv.input[i].HSCode) :
     i \in {j \in DOMAIN hv.input : /\ hv.input[j].QtyReturned > 0
                                    /\ Prefix4(hv.input[j].HSCode) \notin DOMAIN hv.duty_dict}}

UniqueCountries(t) == \A i, j \in DOMAIN t : t[i].Country = t[j].Country => i = j

\* C10: when each input of duty_vat_hv_merge holds a country at most once, the
\* output holds every country of either input exactly once and no other country.
C10_MergeTotal ==
  (pc = "done" /\ UniqueCountries(VatRefundTable) /\ UniqueCountries(DutyTable)) =>
    LET either == TableCountries(VatRefundTable) \cup TableCountries(DutyTable)
    IN  /\ TableCountries(MergedTable) = either
        /\ UniqueCountries(MergedTable)

\* A merge of a country of the VAT table only, one of the duty table only and one of both.
C10_Witness ==
  /\ pc = "done"
  /\ TableCountries(VatRefundTable) \ TableCountries(DutyTable) # {}
  /\ TableCountries(DutyTable) \ TableCountries(VatRefundTable) # {}
  /\ TableCountries(DutyTable) \cap TableCountries(VatRefundTable) # {}

----------------------------------------------------------------------------
\* Claims on the merged refunds, the commission and the settlement

Done == pc \in {"done", "settled"}

\* The sum of one column of a result table.
Total(t, col) == Sum([n \in DOMAIN t |-> t[n][col]], DOMAIN t)

\* C11: every row of duty_vat_hv_merge has 'Total Refund' = 'Total VAT Refund'
\* + 'Total Duty Returned', a country of one input only has 0 for the amounts
\* of the other input, and the refunds of the output add up to the VAT refunds
\* plus the duty refunds of the inputs.
C11_MergeSums ==
  Done =>
    /\ \A n \in DOMAIN MergedTable :
         /\ MergedTable[n].TotalRefund =
              MergedTable[n].TotalVATRefund + MergedTable[n].TotalDutyReturned
         /\ MergedTable[n].Country \notin TableCountries(DutyTable) =>
              MergedTable[n].TotalDutyReturned = 0
         /\ MergedTable[n].Country \notin TableCountries(VatRefundTable) =>
              MergedTable[n].TotalVATRefund = 0 /\ MergedTable[n].TotalReturnedValue = 0
    /\ Total(MergedTable, "TotalRefund") =
         Total(VatRefundTable, "TotalVATRefund") + Total(DutyTable, "TotalDutyReturned")

\* A ProCarrier merge with a country that has both refunds, a country with a
\* VAT refund only and a country with a duty refund only.
C11_Witness ==
  /\ Done
  /\ hv.variant = "ProCarrier"
  /\ \E n \in DOMAIN MergedTable :
       MergedTable[n].TotalVATRefund > 0 /\ MergedTable[n].TotalDutyReturned > 0
  /\ \E n \in DOMAIN MergedTable :
       /\ MergedTable[n].Country \notin TableCountries(DutyTable)
       /\ MergedTable[n].TotalVATRefund > 0
  /\ \E n \in DOMAIN MergedTable :
       /\ MergedTable[n].Country \notin TableCountries(VatRefundTable)
       /\ MergedTable[n].TotalDutyReturned > 0

\* The rows of table t for countries where duty can be reclaimed.
Dutiable(t) == SelectRows(t, {n \in DOMAIN t : t[n].Country \notin DUTY_EXCLUDED_COUNTRIES})

CommissionRate(c) == IF c = "IE" THEN 60 ELSE 40

\* C13: in every refund table the revenue of a row is its refund x 0.30 for IE
\* and x 0.20 for every other country, the IE rate being applied to the VAT
\* refund that is left once duty is excluded: the high-value and low-value
\* revenue tables of MainBusinessLogic and the returned lines of the report script.
C13_CommissionRate ==
  /\ (Done /\ hv.variant = "MainBusinessLogic") =>
       /\ Len(hv.DR_revenue.result_df) = Len(hv.combined_refunds)
       /\ \A n \in DOMAIN hv.combined_refunds :
            /\ hv.DR_revenue.result_df[n].Country = hv.combined_refunds[n].Country
            /\ hv.DR_revenue.result_df[n].Revenue =
                 IF hv.combined_refunds[n].Country = "IE"
                 THEN hv.combined_refunds[n].TotalVATRefund * 60
                 ELSE hv.combined_refunds[n].TotalRefund * 40
  /\ (LowValueDone /\ lv.variant = "MainBusinessLogic") =>
       \A n \in DOMAIN lv.return_vat_per_country :
         lv.DR_revenue_table[n].Revenue =
           lv.return_vat_per_country[n].TotalVATRefund
             * CommissionRate(lv.return_vat_per_country[n].Country)
  /\ pc = "reported" =>
       \A i \in DOMAIN summary.returns_df :
         summary.returns_df[i].OurCommission =
           summary.returns_df[i].TotalReturnRefund
             * CommissionRate(summary.returns_df[i].Country)

\* A settlement of ProCarrier has been computed.
Settled == pc = "settled" /\ summary.variant \in {"main", "Services"}

\* The VAT refund of the returned parcels that stayed in the Netherlands: the
\* NL row of the refunds of the consignments declared there.
DomesticVatReturn ==
  LET t == hv.nl_results.combined_refunds
  IN  Total(SelectRows(t, {n \in DOMAIN t : t[n].Country = "NL"}), "TotalVATRefund")

\* C14: the amount to invoice is net IOSS + net OSS - the VAT return of the
\* returned parcels that stayed in NL + the total commission.
C14_InvoiceAmount ==
  Settled =>
    summary.invoice_amount =
      Scale(summary.net_ioss) + Scale(summary.net_oss) - Scale(DomesticVatReturn)
        + summary.dr_fee

\* C15: the amount to pay back is the total duty refund + the reclaimable
\* import VAT the broker paid, and nothing else.
C15_PaybackAmount ==
  Settled =>
    summary.pc_return_amount =
      Scale(summary.nl_duty_returns) + summary.value_to_return_from_nl_for_import

\* The commission on column col of table t at the rate of each row's country.
CommissionOn(t, col) ==
  Sum([n \in DOMAIN t |-> t[n][col] * CommissionRate(t[n].Country)], DOMAIN t)

\* C16: the commission of the settlement is the sum, over the low-value refund
\* rows and the refund rows of the consignments declared in NL and in IE, of
\* the row's total refund x the commission rate of the row's country.
C16_TotalCommission ==
  (pc = "settled" /\ summary.variant = "main") =>
    summary.dr_fee =
      CommissionOn(lv.combined_vat_per_country, "TotalVATRefund")
        + CommissionOn(hv.nl_results.combined_refunds, "TotalRefund")
        + CommissionOn(hv.ie_results, "TotalRefund")

\* The OSS position of the line items t: consignment value x VAT rate once per
\* consignment with a line destined outside NL (the rate being that of its
\* first such line), minus returned value x VAT rate over the returned lines
\* destined outside NL.
OssPosition(t) ==
  LET abroad == SelectRows(t, {i \in DOMAIN t : t[i].Country # "NL"})
      returned == {i \in DOMAIN abroad : abroad[i].QtyReturned > 0 /\ abroad[i].VATRate # NaN}
  IN  VatDue(abroad)
        - Sum([i \in returned |->
                 abroad[i].QtyReturned * abroad[i].UnitPrice * abroad[i].VATRate], returned)

\* The customs reference m names a declaration in Ireland.
DeclaredInIE(m) ==
  Len(m) >= 4 /\ SubSeq(m, 3, 4) \in {<<"I", "E">>, <<"i", "e">>, <<"I", "e">>, <<"i", "E">>}

\* The line items of the consignments not declared in Ireland.
DeclaredInNL(t) == SelectRows(t, {i \in DOMAIN t : ~DeclaredInIE(t[i].MRN)})

\* C17 as claimed: the net OSS position of the settlement covers every
\* high-value consignment destined outside NL.
C17_NetOssAllHighValue ==
  Settled => summary.net_oss = OssPosition(high_value_df)

\* C17 as amended: the net OSS position of the settlement covers the
\* high-value consignments declared in NL that are destined outside NL; those
\* declared in IE are left out, and no NL-destined line contributes.
C17_NetOssDeclaredInNL ==
  Settled => summary.net_oss = OssPosition(DeclaredInNL(high_value_df))

\* A settlement over a consignment declared in IE and destined for DE, and a
\* consignment declared in NL with a line to DE that was returned and a line to NL.
C17_Witness ==
  /\ Settled
  /\ \E i \in DOMAIN high_value_df :
       DeclaredInIE(high_value_df[i].MRN) /\ high_value_df[i].Country = "DE"
  /\ \E i, j \in DOMAIN high_value_df :
       /\ ~DeclaredInIE(high_value_df[i].MRN) /\ ~DeclaredInIE(high_value_df[j].MRN)
       /\ high_value_df[i].Country = "DE" /\ high_value_df[i].QtyReturned > 0
       /\ high_value_df[j].Country = "NL"
  /\ summary.hv_oss_import_vat > 0
  /\ summary.hv_oss_return_vat > 0

\* The high-value lines were processed by the ProCarrier processor.
BrokerSplit == Done /\ hv.variant = "ProCarrier"

\* The first lines of the consignments of t whose destination satisfies dest:
\* "NL" for the domestic ones, "abroad" for the others.
ConsignmentsTo(t, dest) ==
  {i \in DOMAIN t : /\ \A j \in 1..(i - 1) : t[j].MRN # t[i].MRN
                    /\ (dest = "NL") = (t[i].Country = "NL")}

\* (consignment value + duty) x NL VAT rate of line i, 0 where the duty is unknown.
ImportVat(t, i) ==
  IF t[i].ConsignmentValue = NaN \/ t[i].Duty = NaN THEN 0
  ELSE (t[i].ConsignmentValue * 200 + t[i].Duty) * VAT_RATES["NL"]

\* The import VAT over the consignments of t destined for dest.
ImportVatTo(t, dest) ==
  Sum([i \in ConsignmentsTo(t, dest) |-> ImportVat(t, i)], ConsignmentsTo(t, dest))

\* C18: the import VAT paid by the broker in NL is the reclaimable VAT plus
\* the same per-consignment amount over the NL-destined consignments; the
\* reclaimable amount never exceeds the amount paid, and equals it when no
\* consignment is destined for NL.
C18_BrokerVatSplit ==
  BrokerSplit =>
    LET paid == hv.nl_results.vat_that_was_paid_by_broker_in_nl
        reclaimable == hv.nl_results.vat_to_return_from_nl
    IN  /\ paid = reclaimable + ImportVatTo(hv.input, "NL")
        /\ reclaimable = ImportVatTo(hv.input, "abroad")
        /\ reclaimable <= paid
        /\ ConsignmentsTo(hv.input, "NL") = {} => reclaimable = paid

\* A consignment whose first line goes to NL and has a line abroad, next to a
\* consignment destined abroad, both with duty paid.
C18_Witness ==
  /\ BrokerSplit
  /\ \E i \in ConsignmentsTo(hv.input, "NL") :
       /\ hv.input[i].Duty # NaN /\ hv.input[i].Duty > 0
       /\ \E j \in DOMAIN hv.input :
            hv.input[j].MRN = hv.input[i].MRN /\ hv.input[j].Country # "NL"
  /\ \E i \in ConsignmentsTo(hv.input, "abroad") :
       hv.input[i].Duty # NaN /\ hv.input[i].Duty > 0
  /\ hv.nl_results.vat_to_return_from_nl > 0
  /\ hv.nl_results.vat_that_was_paid_by_broker_in_nl > hv.nl_results.vat_to_return_from_nl

\* No loaded line item has a quantity returned above 0.
NoReturns ==
  /\ \A i \in DOMAIN low_value_df : ~(low_value_df[i].QtyReturned > 0)
  /\ \A i \in DOMAIN high_value_df : ~(high_value_df[i].QtyReturned > 0)

\* C19: in a period without returns the settlement is computed, every refund
\* table is empty, every refund sum, duty sum and commission is 0, and the
\* invoice amount is the import IOSS VAT plus the OSS VAT due.
C19_NoReturnsPeriod ==
  (Settled /\ NoReturns) =>
    /\ lv.return_vat_per_country = <<>>
    /\ hv.nl_results.return_rgr = <<>>
    /\ hv.nl_results.duty_returned_by_country = <<>>
    /\ hv.nl_results.combined_refunds = <<>>
    /\ hv.ie_results = <<>>
    /\ summary.ioss_vat_to_return = 0
    /\ summary.hv_oss_return_vat = 0
    /\ summary.nl_vat_returns = 0
    /\ summary.nl_duty_returns = 0
    /\ summary.ie_vat_returns = 0
    /\ summary.dr_fee = 0
    /\ summary.ioss_sales = VatDue(low_value_df)
    /\ summary.hv_oss_import_vat = VatDue(NotNL(DeclaredInNL(high_value_df)))
    /\ summary.invoice_amount = Scale(summary.ioss_sales + summary.hv_oss_import_vat)

\* A settlement of main.py over a period with a low-value consignment and
\* high-value consignments declared in NL and in IE, none of them returned.
C19_Witness ==
  /\ Settled
  /\ summary.variant = "main"
  /\ NoReturns
  /\ low_value_df # <<>>
  /\ \E i, j \in DOMAIN high_value_df :
       /\ DeclaredInIE(high_value_df[i].MRN)
       /\ ~DeclaredInIE(high_value_df[j].MRN) /\ high_value_df[j].Country # "NL"
  /\ summary.ioss_sales > 0
  /\ summary.hv_oss_import_vat > 0
  /\ summary.invoice_amount > 0

\* The line items of t whose consignment value is above th.
Above(t, th) ==
  SelectRows(t, {i \in DOMAIN t : t[i].ConsignmentValue # NaN /\ t[i].ConsignmentValue > th})

\* The line items of t whose consignment value is th or less.
UpTo(t, th) ==
  SelectRows(t, {i \in DOMAIN t : t[i].ConsignmentValue # NaN /\ t[i].ConsignmentValue <= th})

\* C20 as claimed: a separation called with a threshold of 0 or less is
\* rejected, so that tables are only ever produced for a positive threshold.
C20_NonPositiveThresholdRejected ==
  Separated => call_threshold > 0

\* C20 as amended: a separation called with a threshold of 0 or less completes
\* like any other: it returns the two tables, the high-value one holding the
\* line items of consignment value above the threshold and the low-value one
\* the others, so every line of positive consignment value is high-value.
C20_NonPositiveThresholdAccepted ==
  Separated =>
    /\ call_threshold <= 0 =>
         /\ DOMAIN loaded = {"low_value_df", "high_value_df"}
         /\ high_value_df = Above(df, call_threshold)
         /\ low_value_df = UpTo(df, call_threshold)
         /\ \A i \in DOMAIN df : df[i].ConsignmentValue > 0 => df[i] \in Rows(high_value_df)
    /\ \A th \in {x \in Thresholds : x <= 0} :
         /\ separate_data(df, th).high_value_df = Above(df, th)
         /\ separate_data(df, th).low_value_df = UpTo(df, th)

\* A separation called with a threshold of 0 or less over a table with line
\* items, all of which it returns as high-value.
C20_Witness ==
  /\ pc = "separated"
  /\ loader = "data_processing"
  /\ call_threshold <= 0
  /\ df # <<>>
  /\ high_value_df = df
  /\ low_value_df = <<>>

----------------------------------------------------------------------------
\* Claims on process_data, the VAT return form, the Samos calculator and the
\* remaining operations of the high-value processor

\* C21: a call of process_data with a data type other than 'csv' and 'xlsx'
\* raises ValueError and has no effect: Config.DATA_DIR is unchanged, no
\* directory is created, nothing is loaded and nothing is aggregated; and every
\* call with such a data type ends that way.
C21_UnsupportedTypeRejected ==
  /\ (call.run > 0 /\ call.data_type \notin {"csv", "xlsx"}) => pc = "ValueError"
  /\ pc = "ValueError" =>
       /\ call.data_type \notin {"csv", "xlsx"}
       /\ config.DATA_DIR = call.before.config.DATA_DIR
       /\ fs = call.before.fs
       /\ output_dir(call.output_folder) \notin call.before.fs.dirs =>
            output_dir(call.output_folder) \notin fs.dirs
       /\ loader = call.before.loader /\ df = call.before.df
       /\ loaded = call.before.loaded
       /\ lv = call.before.lv /\ hv = call.before.hv /\ summary = call.before.summary
       /\ call.run = 1 =>
            /\ config.DATA_DIR = <<".">>
            /\ fs = [dirs |-> {<<".">>}, files |-> {}]
            /\ loader = "none"
            /\ loaded = [low_value_df |-> <<>>, high_value_df |-> <<>>]
            /\ lv = NoResults /\ hv = NoResults /\ summary = NoResults

\* A first call of process_data on a file with line items and the data type 'json'.
C21_Witness ==
  /\ pc = "ValueError"
  /\ call.run = 1
  /\ call.data_type = "json"
  /\ raw # <<>>
  /\ output_dir(call.output_folder) \notin fs.dirs

\* A call of process_data after a completed one is running or has returned.
SecondRun == call.run >= 2 /\ call.raised = "none"

TotalNL(t, col) == Total(SelectRows(t, {i \in DOMAIN t : t[i].Country = "NL"}), col)

\* The Dutch VAT return has been generated.
DutchReturn == pc = "reported" /\ summary.variant = "dutch_vat_return"

\* C23: the net position of the Dutch VAT return is (IOSS sales VAT - IOSS
\* returns VAT) + (NL high-value sales VAT - NL high-value returns VAT) - import
\* VAT to reclaim; the status is 'REFUND DUE' exactly when it is negative and
\* 'PAYMENT DUE' otherwise, zero included.
C23_DutchVatReturn ==
  DutchReturn =>
    /\ summary.net_vat =
         (Total(raw.lv_data.vat_per_country, "TotalVATToPay")
            - Total(raw.lv_data.return_vat_per_country, "TotalVATRefund"))
         + (TotalNL(raw.hv_data.vat_per_country, "TotalVATToPay")
              - TotalNL(raw.hv_data.return_vat_per_country, "TotalVATRefund"))
         - raw.hv_data.vat_to_return_from_nl
    /\ summary.status = "REFUND DUE" <=> summary.net_vat < 0
    /\ summary.status = "PAYMENT DUE" <=> summary.net_vat >= 0

\* A return with IOSS sales and returns, NL high-value sales and returns next
\* to those of another country, and more import VAT to reclaim than VAT due.
C23_Witness ==
  /\ DutchReturn
  /\ summary.ioss_sales > 0 /\ summary.ioss_returns > 0
  /\ summary.nl_hv_sales > 0 /\ summary.nl_hv_returns > 0
  /\ \E i \in DOMAIN raw.hv_data.vat_per_country : raw.hv_data.vat_per_country[i].Country = "DE"
  /\ summary.input_vat > summary.output_vat
  /\ summary.status = "REFUND DUE"

\* The order lines of the Samos calculator carry their order type.
Classified == pc \in {"classified", "invoiced"}

\* C24: classify_orders gives every row exactly one order type, fixed by its
\* country and export date: 'UK Order' iff GB without export date, 'UK Return'
\* iff GB with one, 'EU Order' iff another country with one, 'Unknown' iff
\* another country without.
C24_OrderTypes ==
  Classified =>
    \A i \in DOMAIN df :
      LET gb == df[i].Country = "GB"
          exported == df[i].ExportDate \in Dates
      IN  /\ df[i].OrderType \in {"UK Order", "UK Return", "EU Order", "Unknown"}
          /\ df[i].OrderType = "UK Order" <=> (gb /\ ~exported)
          /\ df[i].OrderType = "UK Return" <=> (gb /\ exported)
          /\ df[i].OrderType = "EU Order" <=> (~gb /\ exported)
          /\ df[i].OrderType = "Unknown" <=> (~gb /\ ~exported)
          /\ \A j \in DOMAIN df :
               (df[j].Country = df[i].Country /\ df[j].ExportDate = df[i].ExportDate) =>
                 df[j].OrderType = df[i].OrderType

\* Classified order lines of three types: a returned UK line, an exported line
\* of another country and a line of another country that was never exported.
C24_Witness ==
  /\ pc = "classified"
  /\ \E i, j, k \in DOMAIN df :
       /\ df[i].OrderType = "UK Return"
       /\ df[j].OrderType = "EU Order"
       /\ df[k].OrderType = "Unknown"

\* The invoice of the Samos calculator has been computed.
Invoiced == pc = "invoiced" /\ summary.variant = "Samos"

\* The VAT and duty of the order lines of one type, in the unit of the total.
VatAndDuty(t, order_type) ==
  Sum([i \in DOMAIN t |-> t[i].UKVAT * 20 + t[i].UKDuty * 400],
      {i \in DOMAIN t : t[i].OrderType = order_type})

\* The parcels that have an order line of the given type.
ParcelsOf(t, order_type) ==
  {t[i].ParcelID : i \in {j \in DOMAIN t : t[j].OrderType = order_type}} \ {NA}

\* 1.00 + 0.05 x (duty + VAT) of the lines of parcel p of the given type.
ParcelFee(t, order_type, p) ==
  400000 * 100
    + Sum([i \in DOMAIN t |-> t[i].UKDuty * 20 + t[i].UKVAT],
          {i \in DOMAIN t : t[i].OrderType = order_type /\ t[i].ParcelID = p})

\* The fee over the distinct parcels of the lines of one type.
FeeOf(t, order_type) ==
  Sum([p \in ParcelsOf(t, order_type) |-> ParcelFee(t, order_type, p)],
      ParcelsOf(t, order_type))

\* C25: TOTAL INVOICE = (VAT + duty of the 'UK Order' rows) - (VAT + duty of
\* the 'UK Return' rows) + total fee; the total fee is the sum, over the
\* distinct Parcel IDs of the 'UK Order' rows and over those of the 'EU Order'
\* rows, of 1 + 0.05 x (the parcel's duty + VAT on those rows). The 'EU Order'
\* rows enter through the fee only, the 'UK Return' rows carry no fee, and
\* the 'Unknown' rows change nothing.
C25_SamosInvoice ==
  Invoiced =>
    /\ summary.invoice.TotalDutyRefundsFee = FeeOf(df, "UK Order") + FeeOf(df, "EU Order")
    /\ summary.invoice.TOTALINVOICE =
         VatAndDuty(df, "UK Order") - VatAndDuty(df, "UK Return")
           + FeeOf(df, "UK Order") + FeeOf(df, "EU Order")
    /\ summary.invoice =
         calculate_invoice(SelectRows(df, {i \in DOMAIN df : df[i].OrderType # "Unknown"}))

\* An invoice over a UK order, an EU order and a returned UK parcel.
C25_Witness ==
  /\ Invoiced
  /\ summary.invoice.UKOrderCount = 1
  /\ summary.invoice.EUOrderCount = 1
  /\ summary.invoice.UKReturnCount = 1
  /\ summary.invoice.UKVATReturned > 0
  /\ summary.invoice.EUVATNotCharged > 0
  /\ summary.invoice.TOTALINVOICE > summary.invoice.TotalDutyRefundsFee

\* The reorderings of table t.
Reorderings(t) ==
  {[i \in DOMAIN t |-> t[f[i]]] :
     f \in {g \in [DOMAIN t -> DOMAIN t] : \A i, j \in DOMAIN t : g[i] = g[j] => i = j}}

\* The duty of consignment m: the duty of its line items with a duty rate.
ConsignmentDuty(t, m) ==
  Sum([i \in DOMAIN t |-> Fill0(t[i].Duty)], {i \in DOMAIN t : t[i].MRN = m})

\* (Consignment value + the consignment's duty) x NL VAT rate over the
\* consignments of t with a line in rows.
ConsignmentVat(t, rows) ==
  Sum([m \in MRNs(t) |->
         (FirstLine(t, m).ConsignmentValue * 200 + ConsignmentDuty(t, m)) * VAT_RATES["NL"]],
      {t[i].MRN : i \in rows})

\* C26: the amounts of calculate_vat_paid_by_broker_in_nl and
\* calculate_vat_to_return_from_nl are the same for every reordering of the line
\* items, each consignment adding (consignment value + its duty) x NL VAT rate
\* whichever of its lines comes first and whether or not that line has a duty rate.
C26_RepresentativeIndependent ==
  BrokerSplit =>
    /\ \A u \in Reorderings(hv.input) :
         /\ calculate_vat_paid_by_broker_in_nl(u) =
              hv.nl_results.vat_that_was_paid_by_broker_in_nl
         /\ PC_calculate_vat_to_return_from_nl(u) = hv.nl_results.vat_to_return_from_nl
    /\ hv.nl_results.vat_that_was_paid_by_broker_in_nl =
         ConsignmentVat(hv.input, DOMAIN hv.input)

\* Quantity returned x unit price over the returned lines of t destined for
\* country c.
ReturnedValueTo(t, c) ==
  Sum([i \in DOMAIN t |-> t[i].QtyReturned * t[i].UnitPrice],
      {i \in DOMAIN t : t[i].Country = c /\ t[i].QtyReturned > 0})

\* Every row of refund table r over the line items t refunds the returned
\* value of its country at the one rate given.
RefundedAt(r, t, rate) ==
  \A n \in DOMAIN r :
    /\ r[n].TotalReturnedValue = ReturnedValueTo(t, r[n].Country)
    /\ r[n].TotalVATRefund = r[n].TotalReturnedValue * rate

\* C27: calculate_rgr_vat_return refunds every returned line at the one rate
\* it is given, the NL rate for the consignments declared in NL and the IE rate
\* for those declared in IE, whatever the destination: each country's 'Total
\* VAT Refund' is its 'Total Returned Value' x that rate.
C27_FixedRateRefund ==
  BrokerSplit =>
    /\ RefundedAt(hv.nl_results.return_rgr, hv.input, VAT_RATES["NL"])
    /\ RefundedAt(hv.ie_results, hv.hv_declared_in_IE, VAT_RATES["IE"])

\* Returned lines destined for DE, one of a consignment declared in NL and one
\* of a consignment declared in IE.
C27_Witness ==
  /\ BrokerSplit
  /\ \E n \in DOMAIN hv.nl_results.return_rgr :
       /\ hv.nl_results.return_rgr[n].Country = "DE"
       /\ hv.nl_results.return_rgr[n].TotalVATRefund > 0
  /\ \E n \in DOMAIN hv.ie_results :
       /\ hv.ie_results[n].Country = "DE"
       /\ hv.ie_results[n].TotalVATRefund > 0

\* Every row of refund table r shows the rate its refund was computed at.
ShowsRateUsed(r) ==
  \A n \in DOMAIN r : r[n].TotalVATRefund = Mul(r[n].TotalReturnedValue, r[n].VATRate)

\* C28: every row of NL_REFUNDS and of IE_REFUNDS has 'Total VAT Refund' =
\* 'Total Returned Value' x the row's own 'VAT Rate'.
C28_RowsShowRateUsed ==
  BrokerSplit =>
    /\ ShowsRateUsed(hv.nl_results.combined_refunds)
    /\ ShowsRateUsed(hv.ie_results)

\* C28 for NL_REFUNDS alone.
C28_NLRowsShowRateUsed ==
  BrokerSplit => ShowsRateUsed(hv.nl_results.combined_refunds)

\* Characters 3-4 of MRN m are 'IE' in either case.
DeclaredIE(m) ==
  /\ ~isna(m)
  /\ Len(m) >= 4
  /\ m[3] \in {"I", "i"}
  /\ m[4] \in {"E", "e"}

\* The line item of row r, without the columns the processors add.
LineOf(r) ==
  [MRN |-> r.MRN, Country |-> r.Country, QtyImported |-> r.QtyImported,
   QtyReturned |-> r.QtyReturned, UnitPrice |-> r.UnitPrice, HSCode |-> r.HSCode]

\* How many rows of t are line item l.
Copies(t, l) == Cardinality({i \in DOMAIN t : LineOf(t[i]) = l})

\* C29: separate_by_declaration_country partitions the high-value line items:
\* each is in exactly one of the two tables, in the IE table iff characters 3-4
\* of its MRN are 'IE' in either case, so the lines of one consignment stay
\* together and a line re-keyed to a parcel identifier is on the NL side.
C29_DeclarationPartition ==
  BrokerSplit =>
    /\ \A i \in DOMAIN high_value_df :
         LET l == LineOf(high_value_df[i])
         IN  /\ Copies(hv.hv_declared_in_IE, l) + Copies(hv.input, l) = Copies(high_value_df, l)
             /\ IF DeclaredIE(l.MRN) THEN Copies(hv.input, l) = 0
                                     ELSE Copies(hv.hv_declared_in_IE, l) = 0
    /\ Len(hv.hv_declared_in_IE) + Len(hv.input) = Len(high_value_df)
    /\ \A i \in DOMAIN hv.hv_declared_in_IE, j \in DOMAIN hv.input :
         hv.hv_declared_in_IE[i].MRN # hv.input[j].MRN

\* Two lines of a consignment declared in IE with a lower-case MRN, and a line
\* re-keyed to its parcel identifier.
C29_Witness ==
  /\ BrokerSplit
  /\ Len(hv.hv_declared_in_IE) = 2
  /\ \A i \in DOMAIN hv.hv_declared_in_IE : hv.hv_declared_in_IE[i].MRN = MRN_ie1
  /\ \E j \in DOMAIN hv.input : hv.input[j].MRN = P1

\* The rate each duty text of the tariff rows stands for.
RateRead(duty) ==
  CASE duty = DUTY_12 -> 12000
    [] duty = DUTY_8_5 -> 8500
    [] duty = DUTY_0 -> 0
    [] duty = DUTY_7 -> 7000
    [] duty = DUTY_20 -> 20000
    [] OTHER -> NaN

\* The first four characters of the goods code of tariff row r.
Prefix(r) ==
  IF r.GoodsCode = NA THEN <<"n", "a", "n">> ELSE SubSeq(r.GoodsCode, 1, 4)

\* The rows of the sheet that are 'ERGA OMNES', have prefix k and a numeric duty.
RatedRows(k) ==
  {i \in DOMAIN raw : /\ raw[i].Origin = "ERGA OMNES"
                      /\ Prefix(raw[i]) = k
                      /\ RateRead(raw[i].Duty) # NaN}

DutyMapped == pc = "duty_done"

\* C30: a prefix is a key of the duty mapping iff an 'ERGA OMNES' row with
\* that prefix has a numeric duty, its value is the largest rate of those
\* rows, and the rows of other origins and the rows without a rate count for
\* nothing.
C30_DutyMapping ==
  DutyMapped =>
    /\ DOMAIN summary.duty_dict = {Prefix(raw[i]) : i \in {j \in DOMAIN raw : RatedRows(Prefix(raw[j])) # {}}}
    /\ \A k \in DOMAIN summary.duty_dict :
         /\ \E i \in RatedRows(k) : summary.duty_dict[k] = RateRead(raw[i].Duty)
         /\ \A i \in RatedRows(k) : summary.duty_dict[k] >= RateRead(raw[i].Duty)

\* A prefix with two rated 'ERGA OMNES' rows and a higher rate of another
\* origin, and a prefix whose only 'ERGA OMNES' row has no rate.
C30_Witness ==
  /\ DutyMapped
  /\ \E i, j, o, u \in DOMAIN raw :
       /\ i \in RatedRows(Prefix(raw[i]))
       /\ j \in RatedRows(Prefix(raw[i]))
       /\ RateRead(raw[i].Duty) > RateRead(raw[j].Duty)
       /\ raw[o].Origin = "CH"
       /\ Prefix(raw[o]) = Prefix(raw[i])
       /\ RateRead(raw[o].Duty) > summary.duty_dict[Prefix(raw[i])]
       /\ raw[u].Origin = "ERGA OMNES"
       /\ Prefix(raw[u]) \notin DOMAIN summary.duty_dict

=============================================================================
